---- MODULE Spec2Model ----
(***************************************************************************)
(* A model of rlox: the scanner (scanner.rs), the single-pass Pratt        *)
(* compiler (parser.rs, compiler.rs), the chunk (chunk.rs, value.rs), the  *)
(* driver (driver.rs), the stack VM (vm.rs) and its disassembler and       *)
(* tracer (debug.rs).                                                      *)
(*                                                                         *)
(* A source text is a sequence of one-character strings.  The compiler is  *)
(* a recursive-descent parser; its call chain is kept in kstack, one frame *)
(* per pending function activation, and every action runs the code of the  *)
(* innermost activation up to its next call or its return.  A Rust panic   *)
(* (index out of bounds, a failed expect, a missing HashMap key) ends the  *)
(* run in phase "aborted".                                                 *)
(*                                                                         *)
(* Doubles are modelled exactly: a finite double is a signed fraction in   *)
(* lowest terms (with a signed zero), and the IEEE specials inf, -inf and  *)
(* NaN arise from division as in the code.  Rounding and overflow of f64   *)
(* are not modelled.                                                       *)
(***************************************************************************)
EXTENDS Integers, Sequences, FiniteSets, TLC

VARIABLES
    source,       \* Compiler.source: the text handed to Driver::interpret
    scanner,      \* Compiler.scanner: ScannerState
    parser,       \* Compiler.parser: ParserState
    chunk,        \* Compiler.current_chunk, later VM.chunk
    kstack,       \* the pending activations of the compiler's functions
    diags,        \* the compile diagnostics printed by error_at
    error_calls,  \* how many times error_at has been called
    phase,        \* "compile", "compiled", "running", "done", "aborted"
    panicked,     \* the panic that aborted the process, or "none"
    vm,           \* VM: created, pc, stack (its sp slots in use), globals
    result,       \* the InterpretResult returned, or "none"
    out,          \* the lines printed by kop_print
    rt_errors,    \* the runtime errors printed by VM::runtime_error
    debug_mode,   \* Driver.debug_mode
    traced        \* the lines printed by disassemble_chunk and by the trace

vars == <<source, scanner, parser, chunk, kstack, diags, error_calls,
          phase, panicked, vm, result, out, rt_errors, debug_mode, traced>>

(***************************************************************************)
(* Characters (scanner.rs)                                                 *)
(***************************************************************************)
DigitChars == <<"0", "1", "2", "3", "4", "5", "6", "7", "8", "9">>

Digits == {DigitChars[i] : i \in 1..10}

LowerChars == {"a", "b", "c", "d", "e", "f", "g", "h", "i", "j", "k", "l", "m",
               "n", "o", "p", "q", "r", "s", "t", "u", "v", "w", "x", "y", "z"}

UpperChars == {"A", "B", "C", "D", "E", "F", "G", "H", "I", "J", "K", "L", "M",
               "N", "O", "P", "Q", "R", "S", "T", "U", "V", "W", "X", "Y", "Z"}

is_digit(ch) == ch \in Digits

is_alpha(ch) == ch \in LowerChars \/ ch \in UpperChars

is_alpha_underscore(ch) == is_alpha(ch) \/ ch = "_"

keyword_or_identifier(content) ==
    CASE content = <<"a", "n", "d">> -> "And"
      [] content = <<"c", "l", "a", "s", "s">> -> "Class"
      [] content = <<"e", "l", "s", "e">> -> "Else"
      [] content = <<"f", "a", "l", "s", "e">> -> "False"
      [] content = <<"f", "o", "r">> -> "For"
      [] content = <<"f", "u", "n">> -> "Fun"
      [] content = <<"i", "f">> -> "If"
      [] content = <<"n", "i", "l">> -> "Nil"
      [] content = <<"o", "r">> -> "Or"
      [] content = <<"p", "r", "i", "n", "t">> -> "Print"
      [] content = <<"r", "e", "t", "u", "r", "n">> -> "Return"
      [] content = <<"s", "u", "p", "e", "r">> -> "Super"
      [] content = <<"t", "h", "i", "s">> -> "This"
      [] content = <<"t", "r", "u", "e">> -> "True"
      [] content = <<"v", "a", "r">> -> "Var"
      [] content = <<"w", "h", "i", "l", "e">> -> "While"
      [] OTHER -> "Identifier"

(***************************************************************************)
(* Scanner (scanner.rs).  A scanner state is [start, current, line]; the   *)
(* cursor is 0-based as in the code, so the character under the cursor is  *)
(* src[current + 1].  Every operator returns the new scanner state; a      *)
(* scan result is [tok, sc, panic].                                        *)
(***************************************************************************)
ScannerState_new == [start |-> 0, current |-> 0, line |-> 1]

is_eof(src, sc) == sc.current >= Len(src)

make_token(src, sc, tp) ==
    [tp |-> tp, content |-> SubSeq(src, sc.start + 1, sc.current), line |-> sc.line]

error_token(sc, msg) == [tp |-> "Error", content |-> msg, line |-> sc.line]

\* peek indexes the source without a bounds check: the caller decides
\* whether the index is in range (PeekInRange) before using the value.
PeekInRange(src, sc) == sc.current < Len(src)

peek(src, sc) == src[sc.current + 1]

\* "None" stands for Option::None.
peek_next(src, sc) ==
    IF sc.current + 1 < Len(src) THEN src[sc.current + 2] ELSE "None"

sc_advance(sc) == [sc EXCEPT !.current = @ + 1]

\* while !is_eof && peek != '\n' { advance }
RECURSIVE SkipLineComment(_, _)
SkipLineComment(src, sc) ==
    IF ~is_eof(src, sc) /\ peek(src, sc) /= "\n"
    THEN SkipLineComment(src, sc_advance(sc))
    ELSE sc

RECURSIVE skip_whitespaces(_, _)
skip_whitespaces(src, sc) ==
    IF is_eof(src, sc) THEN sc
    ELSE LET ch == peek(src, sc) IN
         CASE ch \in {" ", "\r", "\t"} -> skip_whitespaces(src, sc_advance(sc))
           [] ch = "\n" ->
                skip_whitespaces(src, [sc_advance(sc) EXCEPT !.line = @ + 1])
           [] ch = "/" ->
                IF peek_next(src, sc) = "/"
                THEN skip_whitespaces(src, SkipLineComment(src, sc))
                ELSE sc
           [] OTHER -> sc

\* Faulty variant of match_ahead: the second character is never merged.
match_ahead_never(src, sc, expected) == [hit |-> FALSE, sc |-> sc]

\* Returns the scanner after the optional second character.
match_ahead(src, sc, expected) ==
    IF is_eof(src, sc) THEN [hit |-> FALSE, sc |-> sc]
    ELSE IF peek(src, sc) = expected
         THEN [hit |-> TRUE, sc |-> sc_advance(sc)]
         ELSE [hit |-> FALSE, sc |-> sc]

\* Faulty variant of ScanOk: the cursor moves on after the token is made.
ScanOk_advances(tok, sc) == [tok |-> tok, sc |-> sc_advance(sc), panic |-> FALSE]

ScanOk(tok, sc) == [tok |-> tok, sc |-> sc, panic |-> FALSE]

ScanPanic(sc) == [tok |-> error_token(sc, <<"panic">>), sc |-> sc, panic |-> TRUE]

RECURSIVE ScanStringBody(_, _)
ScanStringBody(src, sc) ==
    IF ~is_eof(src, sc) /\ peek(src, sc) /= "\""
    THEN ScanStringBody(src,
            [sc_advance(sc) EXCEPT
                !.line = IF peek(src, sc) = "\n" THEN @ + 1 ELSE @])
    ELSE sc

\* Faulty variant of scan_string: the end of input closes the string.
scan_string_closed_by_eof(src, sc0) ==
    LET sc == ScanStringBody(src, sc0) IN
    IF is_eof(src, sc)
    THEN ScanOk(make_token(src, sc, "String"), sc)
    ELSE ScanOk(make_token(src, sc_advance(sc), "String"), sc_advance(sc))

scan_string(src, sc0) ==
    LET sc == ScanStringBody(src, sc0) IN
    IF is_eof(src, sc)
    THEN ScanOk(error_token(sc, <<"Non-terminated string literal">>), sc)
    ELSE ScanOk(make_token(src, sc_advance(sc), "String"), sc_advance(sc))

RECURSIVE ScanDigits(_, _)
ScanDigits(src, sc) ==
    IF ~is_eof(src, sc) /\ is_digit(peek(src, sc))
    THEN ScanDigits(src, sc_advance(sc))
    ELSE sc

\* `if peek(compiler) == '.'` is not guarded by is_eof: with the cursor at
\* the end of the source the index is out of bounds and the scanner panics.
scan_number(src, sc0) ==
    LET sc1 == ScanDigits(src, sc0) IN
    IF ~PeekInRange(src, sc1) THEN ScanPanic(sc1)
    ELSE IF peek(src, sc1) = "."
         THEN LET sc2 == ScanDigits(src, sc_advance(sc1)) IN
              ScanOk(make_token(src, sc2, "Number"), sc2)
         ELSE ScanOk(make_token(src, sc1, "Number"), sc1)

RECURSIVE ScanIdentChars(_, _)
ScanIdentChars(src, sc) ==
    IF ~is_eof(src, sc) /\ is_alpha_underscore(peek(src, sc))
    THEN ScanIdentChars(src, sc_advance(sc))
    ELSE sc

scan_identifier(src, sc0) ==
    LET sc == ScanIdentChars(src, sc0) IN
    ScanOk(make_token(src, sc,
              keyword_or_identifier(SubSeq(src, sc.start + 1, sc.current))), sc)

SingleCharTokens ==
    [c \in {"(", ")", "{", "}", ";", ",", ".", "-", "+", "/", "*"} |->
        CASE c = "(" -> "LeftParen"
          [] c = ")" -> "RightParen"
          [] c = "{" -> "LeftBrace"
          [] c = "}" -> "RightBrace"
          [] c = ";" -> "SemiColon"
          [] c = "," -> "Comma"
          [] c = "." -> "Dot"
          [] c = "-" -> "Minus"
          [] c = "+" -> "Plus"
          [] c = "/" -> "Slash"
          [] c = "*" -> "Star"]

TwoCharTokens ==
    [c \in {"!", "=", ">", "<"} |->
        CASE c = "!" -> <<"BangEqual", "Bang">>
          [] c = "=" -> <<"EqualEqual", "Equal">>
          [] c = ">" -> <<"GreaterEqual", "Greater">>
          [] c = "<" -> <<"LessEqual", "Less">>]

next_token(src, sc0) ==
    LET sc1 == skip_whitespaces(src, sc0)
        sc2 == [sc1 EXCEPT !.start = sc1.current]
    IN  IF is_eof(src, sc2) THEN ScanOk(make_token(src, sc2, "EOF"), sc2)
        ELSE LET c   == peek(src, sc2)
                 sc3 == sc_advance(sc2)
             IN  CASE c \in DOMAIN SingleCharTokens ->
                        ScanOk(make_token(src, sc3, SingleCharTokens[c]), sc3)
                   [] c \in DOMAIN TwoCharTokens ->
                        LET m == match_ahead(src, sc3, "=") IN
                        ScanOk(make_token(src, m.sc,
                                 IF m.hit THEN TwoCharTokens[c][1]
                                          ELSE TwoCharTokens[c][2]), m.sc)
                   [] c = "\"" -> scan_string(src, sc3)
                   [] is_digit(c) -> scan_number(src, sc3)
                   [] is_alpha_underscore(c) -> scan_identifier(src, sc3)
                   [] OTHER ->
                        ScanOk(error_token(sc3,
                                 <<"Fail to tokenize at character", c>>), sc3)

(***************************************************************************)
(* Values (value.rs).  Value::DOUBLE carries an f64.                       *)
(***************************************************************************)
RECURSIVE GCD(_, _)
GCD(a, b) == IF b = 0 THEN a ELSE GCD(b, a % b)

\* A finite double: sign s (1 or -1), magnitude n / d in lowest terms.
Fin(s, n, d) ==
    LET g == GCD(n, d) IN
    [t |-> "DOUBLE", k |-> "fin", s |-> s, n |-> n \div g, d |-> d \div g]

Inf(s) == [t |-> "DOUBLE", k |-> "inf", s |-> s, n |-> 0, d |-> 1]

NaN == [t |-> "DOUBLE", k |-> "nan", s |-> 1, n |-> 0, d |-> 1]

BOOL(b) == [t |-> "BOOL", data |-> b]

NIL == [t |-> "NIL"]

EMPTY == [t |-> "EMPTY"]

\* Value::OBJ holding Obj::Str { data: s }, the only object variant.
create_string_obj(s) == [t |-> "OBJ", data |-> s]

is_double(v) == v.t = "DOUBLE"

is_string(v) == v.t = "OBJ"

IsZero(x) == x.k = "fin" /\ x.n = 0

SignOf(i) == IF i < 0 THEN -1 ELSE 1

AbsOf(i) == IF i < 0 THEN -i ELSE i

\* f64 arithmetic: -x, x + y, x - y, x * y, x / y, x == y, x < y, x > y.
f64_neg(x) == IF x.k = "nan" THEN x ELSE [x EXCEPT !.s = -@]

f64_add(x, y) ==
    CASE x.k = "nan" \/ y.k = "nan" -> NaN
      [] x.k = "inf" /\ y.k = "inf" -> IF x.s = y.s THEN x ELSE NaN
      [] x.k = "inf" /\ y.k = "fin" -> x
      [] x.k = "fin" /\ y.k = "inf" -> y
      [] OTHER ->
           LET num == x.s * x.n * y.d + y.s * y.n * x.d IN
           IF num = 0
           THEN Fin(IF IsZero(x) /\ IsZero(y) /\ x.s = -1 /\ y.s = -1
                    THEN -1 ELSE 1, 0, 1)
           ELSE Fin(SignOf(num), AbsOf(num), x.d * y.d)

f64_sub(x, y) == f64_add(x, f64_neg(y))

f64_mul(x, y) ==
    CASE x.k = "nan" \/ y.k = "nan" -> NaN
      [] (x.k = "inf" /\ IsZero(y)) \/ (IsZero(x) /\ y.k = "inf") -> NaN
      [] x.k = "inf" \/ y.k = "inf" -> Inf(x.s * y.s)
      [] OTHER -> Fin(x.s * y.s, x.n * y.n, x.d * y.d)

f64_div(x, y) ==
    CASE x.k = "nan" \/ y.k = "nan" -> NaN
      [] x.k = "inf" /\ y.k = "inf" -> NaN
      [] IsZero(x) /\ IsZero(y) -> NaN
      [] x.k = "inf" -> Inf(x.s * y.s)
      [] y.k = "inf" -> Fin(x.s * y.s, 0, 1)
      [] IsZero(y) -> Inf(x.s * y.s)
      [] OTHER -> Fin(x.s * y.s, x.n * y.d, x.d * y.n)

f64_eq(x, y) ==
    CASE x.k = "nan" \/ y.k = "nan" -> FALSE
      [] IsZero(x) /\ IsZero(y) -> TRUE
      [] OTHER -> x = y

f64_lt(x, y) ==
    CASE x.k = "nan" \/ y.k = "nan" -> FALSE
      [] x.k = "inf" /\ y.k = "inf" -> x.s < y.s
      [] x.k = "inf" -> x.s = -1
      [] y.k = "inf" -> y.s = 1
      [] OTHER -> x.s * x.n * y.d < y.s * y.n * x.d

f64_gt(x, y) == f64_lt(y, x)

\* str::parse::<f64> on the text of a Number token: digits, then an
\* optional '.' and digits.
RECURSIVE ParseDigits(_, _, _)
ParseDigits(s, i, acc) ==
    IF i > Len(s) \/ ~is_digit(s[i]) THEN [val |-> acc, next |-> i]
    ELSE ParseDigits(s, i + 1,
            acc * 10 + (CHOOSE v \in 0..9 : DigitChars[v + 1] = s[i]))

RECURSIVE Pow10(_)
Pow10(k) == IF k = 0 THEN 1 ELSE 10 * Pow10(k - 1)

parse_f64(s) ==
    LET ip == ParseDigits(s, 1, 0) IN
    IF ip.next > Len(s) THEN Fin(1, ip.val, 1)
    ELSE LET fp == ParseDigits(s, ip.next + 1, 0)
             k  == fp.next - (ip.next + 1)
         IN  Fin(1, ip.val * Pow10(k) + fp.val, Pow10(k))

(***************************************************************************)
(* show_value (debug.rs): the text println! writes for a value.            *)
(***************************************************************************)
RECURSIVE ShowNat(_)
ShowNat(n) ==
    IF n < 10 THEN <<DigitChars[n + 1]>>
    ELSE ShowNat(n \div 10) \o <<DigitChars[(n % 10) + 1]>>

\* The k digits of r / d (r < d) after the decimal point.
RECURSIVE FracDigits(_, _, _)
FracDigits(r, d, k) ==
    IF k = 0 THEN <<>>
    ELSE <<DigitChars[((r * 10) \div d) + 1]>> \o FracDigits((r * 10) % d, d, k - 1)

\* Display of an f64: integers print without a fraction, a short
\* terminating decimal prints its digits; any other fraction prints as a
\* 16 or 17 digit approximation, written here as "~n/d".
show_f64(x) ==
    CASE x.k = "nan" -> <<"N", "a", "N">>
      [] x.k = "inf" -> (IF x.s = -1 THEN <<"-">> ELSE <<>>) \o <<"i", "n", "f">>
      [] OTHER ->
           LET sign == IF x.s = -1 THEN <<"-">> ELSE <<>>
               ks   == {k \in 1..6 : Pow10(k) % x.d = 0}
           IN  IF x.d = 1 THEN sign \o ShowNat(x.n)
               ELSE IF ks /= {}
                    THEN LET k == CHOOSE k \in ks : \A j \in ks : k <= j IN
                         sign \o ShowNat(x.n \div x.d) \o <<".">>
                              \o FracDigits(x.n % x.d, x.d, k)
                    ELSE sign \o <<"~">> \o ShowNat(x.n) \o <<"/">> \o ShowNat(x.d)

show_value(v) ==
    CASE v.t = "DOUBLE" -> show_f64(v)
      [] v.t = "BOOL" ->
           IF v.data THEN <<"t", "r", "u", "e">> ELSE <<"f", "a", "l", "s", "e">>
      [] v.t = "NIL" -> <<"n", "i", "l">>
      [] v.t = "OBJ" -> <<"'">> \o v.data \o <<"'">>
      [] v.t = "EMPTY" -> <<"E", "M", "P", "T", "Y">>

(***************************************************************************)
(* Parser state and the compiler's helpers (parser.rs, compiler.rs,        *)
(* chunk.rs).  A compile state c is the record of the compiler's fields    *)
(* with c.abort = "none" or the panic that ended the compilation; a helper *)
(* applied to an aborted state does nothing.                               *)
(***************************************************************************)
empty_token == [tp |-> "Error", content |-> <<"EMPTY TOKEN">>, line |-> 0]

ParserState_new ==
    [current |-> empty_token, previous |-> empty_token,
     had_error |-> FALSE, panic_mode |-> FALSE]

Chunk_new == [data |-> <<>>, value_array |-> <<>>, lines |-> <<>>]

Cur ==
    [scanner |-> scanner, parser |-> parser, chunk |-> chunk, diags |-> diags,
     error_calls |-> error_calls, abort |-> "none"]

Aborted(c) == c.abort /= "none"

\* Mutant of error_at: the error is reported but had_error stays unset.
error_at_no_flag(c, token, msg) ==
    IF Aborted(c) THEN c
    ELSE IF c.parser.panic_mode THEN [c EXCEPT !.error_calls = @ + 1]
    ELSE [c EXCEPT !.parser.panic_mode = TRUE,
                   !.error_calls = @ + 1,
                   !.diags = Append(@, [line |-> token.line, at |-> <<>>, msg |-> msg])]

\* Mutant of error_at: panic_mode does not suppress the report.
error_at_no_latch(c, token, msg) ==
    IF Aborted(c) THEN c
    ELSE [c EXCEPT !.parser.panic_mode = TRUE,
                   !.parser.had_error = TRUE,
                   !.error_calls = @ + 1,
                   !.diags = Append(@, [line |-> token.line, at |-> <<>>, msg |-> msg])]

error_at(c, token, msg) ==
    IF Aborted(c) THEN c
    ELSE IF c.parser.panic_mode THEN [c EXCEPT !.error_calls = @ + 1]
    ELSE [c EXCEPT !.parser.panic_mode = TRUE,
                   !.parser.had_error = TRUE,
                   !.error_calls = @ + 1,
                   !.diags = Append(@,
                       [line |-> token.line,
                        at   |-> CASE token.tp = "EOF" -> <<"End">>
                                   [] token.tp = "Error" -> <<>>
                                   [] OTHER -> token.content,
                        msg  |-> msg])]

emit_error(c, msg) == error_at(c, c.parser.previous, msg)

emit_error_at_current(c, msg) == error_at(c, c.parser.current, msg)

\* The loop of parser::advance: scan until a token that is not an Error.
RECURSIVE AdvanceLoop(_)
AdvanceLoop(c) ==
    LET r == next_token(source, c.scanner) IN
    IF r.panic
    THEN [c EXCEPT !.scanner = r.sc, !.abort = "scan_number: index out of bounds"]
    ELSE IF r.tok.tp /= "Error"
         THEN [c EXCEPT !.scanner = r.sc, !.parser.current = r.tok]
         ELSE AdvanceLoop(
                  emit_error_at_current([c EXCEPT !.scanner = r.sc], r.tok.content))

advance(c) ==
    IF Aborted(c) THEN c
    ELSE AdvanceLoop([c EXCEPT !.parser.previous = c.parser.current])

consume(c, tp, msg) ==
    IF Aborted(c) THEN c
    ELSE IF c.parser.current.tp = tp THEN advance(c)
    ELSE error_at(c, c.parser.current, msg)

check_next(c, tp) == c.parser.current.tp = tp

\* Faulty variant of emit_inst: the line recorded is that of the token
\* not yet consumed.
emit_inst_current_line(c, inst) ==
    IF Aborted(c) THEN c
    ELSE [c EXCEPT !.chunk.data = Append(@, inst),
                   !.chunk.lines = Append(@, c.parser.current.line)]

\* Chunk::write through Compiler::emit_inst.
emit_inst(c, inst) ==
    IF Aborted(c) THEN c
    ELSE [c EXCEPT !.chunk.data = Append(@, inst),
                   !.chunk.lines = Append(@, c.parser.previous.line)]

\* ValueArray::add_constant; the index it returns is NextConstIdx before it.
NextConstIdx(c) == Len(c.chunk.value_array)

\* Faulty variant of add_constant: a value already in the pool is not
\* appended again.
add_constant_dedup(c, value) ==
    IF Aborted(c) THEN c
    ELSE IF \E k \in 1..Len(c.chunk.value_array) : c.chunk.value_array[k] = value
         THEN c
    ELSE [c EXCEPT !.chunk.value_array = Append(@, value)]

add_constant(c, value) ==
    IF Aborted(c) THEN c
    ELSE [c EXCEPT !.chunk.value_array = Append(@, value)]

make_str(c, s) == add_constant(c, create_string_obj(s))

emit_constant(c, value) ==
    emit_inst(add_constant(c, value), [op |-> "CONSTANT", idx |-> NextConstIdx(c)])

emit_str(c, s) == emit_constant(c, create_string_obj(s))

emit_print(c) == emit_inst(c, [op |-> "OP_KCALL", tp |-> "Print"])

(***************************************************************************)
(* Precedence and the parse table (parser.rs)                              *)
(***************************************************************************)
PrecedenceOrder ==
    <<"None", "Assignment", "Or", "And", "Equality", "Comparison", "Term",
      "Factor", "Unary", "Call", "Primary">>

\* The derived Ord of Precedence: the position of the variant.
PrecRank(p) == CHOOSE i \in 1..Len(PrecedenceOrder) : PrecedenceOrder[i] = p

\* Faulty variant of succ: the right operand is parsed at the operator's own
\* precedence.
succ_same(p) == p

succ(p) == IF p = "Primary" THEN "Primary" ELSE PrecedenceOrder[PrecRank(p) + 1]

ParseRule_new(prefix, infix, prec) == [prefix |-> prefix, infix |-> infix, prec |-> prec]

\* enum TokenType
TokenType ==
    {"LeftParen", "RightParen", "LeftBrace", "RightBrace", "Comma", "Dot", "Minus",
     "Plus", "SemiColon", "Slash", "Star", "Bang", "BangEqual", "Equal",
     "EqualEqual", "Greater", "GreaterEqual", "Less", "LessEqual", "Identifier",
     "String", "Number", "And", "Class", "Else", "False", "For", "Fun", "If", "Nil",
     "Or", "Print", "Return", "Super", "This", "True", "Var", "While", "Error", "EOF"}

make_rules ==
    [tp \in {"LeftParen", "RightParen", "LeftBrace", "RightBrace", "Comma", "Dot",
             "SemiColon", "Print", "Minus", "Plus", "Slash", "Star", "EqualEqual",
             "Greater", "Less", "Number", "Identifier", "String", "False", "True",
             "Nil", "Bang", "EOF"} |->
        CASE tp = "LeftParen"  -> ParseRule_new("parse_grouping", "None", "None")
          [] tp = "Minus"      -> ParseRule_new("parse_unary", "parse_binary", "Term")
          [] tp = "Plus"       -> ParseRule_new("None", "parse_binary", "Term")
          [] tp = "Slash"      -> ParseRule_new("None", "parse_binary", "Factor")
          [] tp = "Star"       -> ParseRule_new("None", "parse_binary", "Factor")
          [] tp = "EqualEqual" -> ParseRule_new("None", "parse_binary", "Equality")
          [] tp = "Greater"    -> ParseRule_new("None", "parse_binary", "Comparison")
          [] tp = "Less"       -> ParseRule_new("None", "parse_binary", "Comparison")
          [] tp = "Number"     -> ParseRule_new("parse_number", "None", "None")
          [] tp = "Identifier" -> ParseRule_new("parse_variable", "None", "None")
          [] tp = "String"     -> ParseRule_new("parse_string", "None", "None")
          [] tp = "False"      -> ParseRule_new("parse_literal", "None", "None")
          [] tp = "True"       -> ParseRule_new("parse_literal", "None", "None")
          [] tp = "Nil"        -> ParseRule_new("parse_literal", "None", "None")
          [] tp = "Bang"       -> ParseRule_new("parse_unary", "None", "None")
          [] OTHER             -> ParseRule_new("None", "None", "None")]

\* get_rule indexes the HashMap: a token kind with no entry panics.
HasRule(tp) == tp \in DOMAIN make_rules

get_rule(tp) == make_rules[tp]

NoRulePanic(c) == [c EXCEPT !.abort = "get_rule: no entry in the parse table"]

(***************************************************************************)
(* The prefix and infix parse functions that make no call of parse_prec    *)
(***************************************************************************)
parse_number(c) == emit_constant(c, parse_f64(c.parser.previous.content))

parse_variable(c) ==
    emit_inst(make_str(c, c.parser.previous.content),
              [op |-> "OP_GET_GLOBAL", name_idx |-> NextConstIdx(c)])

parse_string(c) ==
    LET s0 == c.parser.previous.content IN
    emit_str(c, SubSeq(s0, 2, Len(s0) - 1))

parse_literal(c) ==
    LET tp == c.parser.previous.tp IN
    CASE tp = "False" -> emit_constant(c, BOOL(FALSE))
      [] tp = "True" -> emit_constant(c, BOOL(TRUE))
      [] tp = "Nil" -> emit_constant(c, NIL)
      [] OTHER -> c

UnaryInst(tp) ==
    CASE tp = "Minus" -> [op |-> "OP_NEGATE"]
      [] tp = "Bang" -> [op |-> "OP_NOT"]

BinaryInst(op_type) ==
    CASE op_type = "Plus" -> [op |-> "OP_ADD"]
      [] op_type = "Minus" -> [op |-> "OP_SUB"]
      [] op_type = "Star" -> [op |-> "OP_MUL"]
      [] op_type = "Slash" -> [op |-> "OP_DIV"]
      [] op_type = "EqualEqual" -> [op |-> "OP_EQ"]
      [] op_type = "Greater" -> [op |-> "OP_GT"]
      [] op_type = "Less" -> [op |-> "OP_LT"]

(***************************************************************************)
(* The compiler as a state machine.  kstack holds one frame per pending    *)
(* activation, the innermost last; a frame names the function and the      *)
(* point in it where the activation continues, with the locals it needs.   *)
(***************************************************************************)
Frame(k) == [k |-> k]

PrecFrame(k, prec) == [k |-> k, prec |-> prec]

TpFrame(k, tp) == [k |-> k, tp |-> tp]

IdxFrame(k, idx) == [k |-> k, idx |-> idx]

Top == kstack[Len(kstack)]

Rest == SubSeq(kstack, 1, Len(kstack) - 1)

InFrame(k) == phase = "compile" /\ kstack /= <<>> /\ Top.k = k

Step(c, ks) == [c |-> c, ks |-> ks]

\* parse_expression: parse_prec(compiler, Precedence::Assignment)
parse_expression == PrecFrame("parse_prec", "Assignment")

\* The new values of the compiler's fields after a step; a panic aborts.
Commit(r) ==
    /\ scanner' = r.c.scanner
    /\ parser' = r.c.parser
    /\ chunk' = r.c.chunk
    /\ diags' = r.c.diags
    /\ error_calls' = r.c.error_calls
    /\ panicked' = r.c.abort
    /\ phase' = IF Aborted(r.c) THEN "aborted" ELSE phase
    /\ kstack' = IF Aborted(r.c) THEN kstack ELSE r.ks
    /\ UNCHANGED <<source, vm, result, out, rt_errors, debug_mode, traced>>

\* Compiler::compile up to its loop: parser::advance(self).
CompileStart ==
    /\ InFrame("compile")
    /\ Commit(Step(advance(Cur), <<Frame("compile_loop")>>))

\* while !try_consume(EOF) { parse_decl(self) }: one more declaration.
CompileLoopDecl ==
    /\ InFrame("compile_loop")
    /\ ~check_next(Cur, "EOF")
    /\ Commit(Step(Cur, Append(kstack, Frame("parse_decl"))))

\* The end of compile: EOF is consumed, RETURN emitted, !had_error returned.
compile_finish(c) == emit_inst(consume(c, "EOF", <<>>), [op |-> "RETURN"])

CompileReturn ==
    /\ InFrame("compile_loop")
    /\ check_next(Cur, "EOF")
    /\ LET c == compile_finish(Cur) IN
       /\ scanner' = c.scanner
       /\ parser' = c.parser
       /\ chunk' = c.chunk
       /\ diags' = c.diags
       /\ error_calls' = c.error_calls
       /\ panicked' = c.abort
       /\ phase' = IF Aborted(c) THEN "aborted" ELSE "compiled"
       /\ kstack' = IF Aborted(c) THEN kstack ELSE <<>>
    /\ UNCHANGED <<source, vm, result, out, rt_errors, debug_mode, traced>>

parse_decl(c, rest) ==
    IF check_next(c, "Var")
    THEN Step(consume(c, "Var", <<>>), Append(rest, Frame("parse_var_decl")))
    ELSE Step(c, Append(rest, Frame("parse_stmt")))

ParseDecl == InFrame("parse_decl") /\ Commit(parse_decl(Cur, Rest))

\* parse_var, then the initializer or the default nil.  (The message is
\* written without the backquotes the code puts around var.)
parse_var_decl(c, rest) ==
    LET c1  == consume(c, "Identifier", <<"Expecting variable name after var">>)
        idx == NextConstIdx(c1)
        c2  == make_str(c1, c1.parser.previous.content)
    IN  IF check_next(c2, "Equal")
        THEN Step(consume(c2, "Equal", <<>>),
                  rest \o <<IdxFrame("var_decl_end", idx), parse_expression>>)
        ELSE Step(emit_constant(c2, NIL), Append(rest, IdxFrame("var_decl_end", idx)))

ParseVarDecl == InFrame("parse_var_decl") /\ Commit(parse_var_decl(Cur, Rest))

\* parser.rs define_variable: the define-global instruction.
define_variable(c, varname_idx) ==
    emit_inst(c, [op |-> "OP_DEFINE_GLOBAL", name_idx |-> varname_idx])

var_decl_end(c, idx, rest) ==
    Step(define_variable(
             consume(c, "SemiColon", <<"Expecting ';' after variable decl">>), idx),
         rest)

VarDeclEnd == InFrame("var_decl_end") /\ Commit(var_decl_end(Cur, Top.idx, Rest))

parse_stmt(c, rest) ==
    IF check_next(c, "Print")
    THEN Step(consume(c, "Print", <<>>),
              rest \o <<Frame("print_stmt_end"), parse_expression>>)
    ELSE Step(c, rest \o <<Frame("expr_stmt_end"), parse_expression>>)

ParseStmt == InFrame("parse_stmt") /\ Commit(parse_stmt(Cur, Rest))

expr_stmt_end(c, rest) ==
    Step(emit_inst(consume(c, "SemiColon", <<"Expect ';' at end of statement.">>),
                   [op |-> "OP_POP"]),
         rest)

ExprStmtEnd == InFrame("expr_stmt_end") /\ Commit(expr_stmt_end(Cur, Rest))

print_stmt_end(c, rest) ==
    Step(emit_print(consume(c, "SemiColon", <<"Expect ';' at end of statement.">>)),
         rest)

PrintStmtEnd == InFrame("print_stmt_end") /\ Commit(print_stmt_end(Cur, Rest))

\* parse_prec up to its loop: advance, then the prefix rule of `previous`.
\* A prefix function that parses an operand leaves its own continuation
\* under the operand's parse_prec.
parse_prec(c, prec, rest) ==
    LET c1   == advance(c)
        tp   == c1.parser.previous.tp
        loop == PrecFrame("prec_loop", prec)
    IN  IF Aborted(c1) THEN Step(c1, rest)
        ELSE IF ~HasRule(tp) THEN Step(NoRulePanic(c1), rest)
        ELSE LET prefix_fn == get_rule(tp).prefix IN
             CASE prefix_fn = "None" ->
                    Step(emit_error(c1, <<"Expect expression.">>), rest)
               [] prefix_fn = "parse_number" ->
                    Step(parse_number(c1), Append(rest, loop))
               [] prefix_fn = "parse_variable" ->
                    Step(parse_variable(c1), Append(rest, loop))
               [] prefix_fn = "parse_string" ->
                    Step(parse_string(c1), Append(rest, loop))
               [] prefix_fn = "parse_literal" ->
                    Step(parse_literal(c1), Append(rest, loop))
               [] prefix_fn = "parse_grouping" ->
                    Step(c1, rest \o <<loop, Frame("grouping_end"), parse_expression>>)
               [] prefix_fn = "parse_unary" ->
                    Step(c1, rest \o <<loop, TpFrame("unary_end", tp), parse_expression>>)

ParsePrec == InFrame("parse_prec") /\ Commit(parse_prec(Cur, Top.prec, Rest))

\* One round of the loop of parse_prec: the infix rule of `current`.
prec_loop(c, prec, rest) ==
    LET tp == c.parser.current.tp IN
    IF ~HasRule(tp) THEN Step(NoRulePanic(c), rest)
    ELSE LET infix_rule == get_rule(tp) IN
         IF PrecRank(prec) > PrecRank(infix_rule.prec) THEN Step(c, rest)
         ELSE LET c1 == advance(c) IN
              IF infix_rule.infix = "None"
              THEN Step(emit_error(c1, <<"Expecting valid infix operator.">>),
                        Append(rest, PrecFrame("prec_loop", prec)))
              ELSE \* parse_binary
                   LET op_type == c1.parser.previous.tp IN
                   Step(c1, rest \o <<PrecFrame("prec_loop", prec),
                                      TpFrame("binary_end", op_type),
                                      PrecFrame("parse_prec",
                                                succ(get_rule(op_type).prec))>>)

PrecLoop == InFrame("prec_loop") /\ Commit(prec_loop(Cur, Top.prec, Rest))

grouping_end(c, rest) ==
    Step(consume(c, "RightParen", <<"Expecting ')' after expression.">>), rest)

GroupingEnd == InFrame("grouping_end") /\ Commit(grouping_end(Cur, Rest))

unary_end(c, tp, rest) == Step(emit_inst(c, UnaryInst(tp)), rest)

UnaryEnd == InFrame("unary_end") /\ Commit(unary_end(Cur, Top.tp, Rest))

binary_end(c, op_type, rest) == Step(emit_inst(c, BinaryInst(op_type)), rest)

BinaryEnd == InFrame("binary_end") /\ Commit(binary_end(Cur, Top.tp, Rest))

(***************************************************************************)
(* The VM (vm.rs).  A machine state m is the record of the VM's fields     *)
(* that change while it runs, with the two output streams and m.abort.     *)
(* The operand stack is the sequence of its sp slots in use: the slots at  *)
(* or above sp are never read.                                             *)
(***************************************************************************)
STACK_MAX == 128

EmptyGlobals == [name \in {} |-> EMPTY]

VM_idle ==
    [created |-> FALSE, pc |-> 0, stack |-> <<>>, globals |-> EmptyGlobals,
     enable_trace |-> FALSE]

VM_new ==
    [created |-> TRUE, pc |-> 0, stack |-> <<>>, globals |-> EmptyGlobals,
     enable_trace |-> FALSE]

\* The VM and the output streams before a round of the loop of run.
Machine ==
    [pc |-> vm.pc, stack |-> vm.stack, globals |-> vm.globals, out |-> out,
     rt_errors |-> rt_errors, traced |-> traced, abort |-> "none"]

Panic(m, what) == IF Aborted(m) THEN m ELSE [m EXCEPT !.abort = what]

sp(m) == Len(m.stack)

\* self.stack[idx] = value; self.sp += 1: the Vec has STACK_MAX slots.
push(m, value) ==
    IF Aborted(m) THEN m
    ELSE IF sp(m) >= STACK_MAX THEN Panic(m, "push: index out of bounds")
    ELSE [m EXCEPT !.stack = Append(@, value)]

\* pop returns None on an empty stack: PopIsSome, PopValue and Popped are
\* the three parts of its result.
PopIsSome(m) == sp(m) > 0

PopValue(m) == m.stack[sp(m)]

Popped(m) == [m EXCEPT !.stack = SubSeq(@, 1, Len(@) - 1)]

\* peek_at(i) panics ("Peeking value, but found an empty stack", or the
\* u32 underflow of sp - i) unless sp > i.
PeekIsSome(m, i) == sp(m) > i

peek_at(m, i) == m.stack[sp(m) - i]

runtime_error(m, msg) ==
    IF Aborted(m) THEN m
    ELSE [m EXCEPT !.rt_errors = Append(@, [msg |-> msg, line |-> chunk.lines[m.pc + 1]])]

\* Mutant of update_global: a name already bound keeps its first value.
update_global_first_wins(m, name, v) ==
    IF Aborted(m) THEN m
    ELSE IF name \in DOMAIN m.globals THEN m
    ELSE [m EXCEPT !.globals =
             [n \in DOMAIN m.globals \cup {name} |-> IF n = name THEN v ELSE m.globals[n]]]

update_global(m, name, v) ==
    IF Aborted(m) THEN m
    ELSE [m EXCEPT !.globals =
             [n \in DOMAIN m.globals \cup {name} |-> IF n = name THEN v ELSE m.globals[n]]]

op_negate(v) == IF is_double(v) THEN f64_neg(v) ELSE EMPTY

op_not(v) ==
    CASE v.t = "BOOL" -> BOOL(~v.data)
      [] v.t = "NIL" -> BOOL(TRUE)
      [] OTHER -> EMPTY

\* Mutant of op_add: the first-popped text comes first.
op_add_first_popped_first(v1, v2) ==
    CASE is_double(v1) /\ is_double(v2) -> f64_add(v1, v2)
      [] is_string(v1) /\ is_string(v2) -> create_string_obj(v1.data \o v2.data)
      [] OTHER -> EMPTY

\* v1 is the value popped first (the right operand of the source), v2 the
\* value popped second (the left operand).
op_add(v1, v2) ==
    CASE is_double(v1) /\ is_double(v2) -> f64_add(v1, v2)
      [] is_string(v1) /\ is_string(v2) -> create_string_obj(v2.data \o v1.data)
      [] OTHER -> EMPTY

op_sub(v1, v2) == IF is_double(v1) /\ is_double(v2) THEN f64_sub(v2, v1) ELSE EMPTY

op_mul(v1, v2) == IF is_double(v1) /\ is_double(v2) THEN f64_mul(v1, v2) ELSE EMPTY

\* Mutant of op_div: the popped operands are not flipped back.
op_div_unflipped(v1, v2) ==
    IF is_double(v1) /\ is_double(v2) THEN f64_div(v1, v2) ELSE EMPTY

op_div(v1, v2) == IF is_double(v1) /\ is_double(v2) THEN f64_div(v2, v1) ELSE EMPTY

op_eq(v1, v2) ==
    CASE is_double(v1) /\ is_double(v2) -> BOOL(f64_eq(v1, v2))
      [] v1.t = "BOOL" /\ v2.t = "BOOL" -> BOOL(v1.data = v2.data)
      [] v1.t = "NIL" /\ v2.t = "NIL" -> BOOL(TRUE)
      [] is_string(v1) /\ is_string(v2) -> BOOL(v1.data = v2.data)
      [] OTHER -> BOOL(FALSE)

op_gt(v1, v2) == IF is_double(v1) /\ is_double(v2) THEN BOOL(f64_gt(v2, v1)) ELSE EMPTY

op_lt(v1, v2) == IF is_double(v1) /\ is_double(v2) THEN BOOL(f64_lt(v2, v1)) ELSE EMPTY

\* The checkers passed to the typecheck functions by run.
IsNumber(v) == is_double(v)

IsBoolOrNil(v) == v.t = "BOOL" \/ v.t = "NIL"

\* Faulty variant of BothNumbersOrStrings: each operand is checked alone.
BothNumbersOrStrings_each(v1, v2) ==
    (is_double(v1) \/ is_string(v1)) /\ (is_double(v2) \/ is_string(v2))

BothNumbersOrStrings(v1, v2) ==
    (is_double(v1) /\ is_double(v2)) \/ (is_string(v1) /\ is_string(v2))

\* run hands the typecheck and lift functions a closure or a function
\* item; the model hands them its name and calls it through these.
CallChecker(checker, v) ==
    CASE checker = "is_number" -> IsNumber(v)
      [] checker = "is_bool_or_nil" -> IsBoolOrNil(v)

CallChecker2(checker, v1, v2) ==
    CASE checker = "both_numbers_or_strings" -> BothNumbersOrStrings(v1, v2)

CallUnop(op, v) ==
    CASE op = "op_negate" -> op_negate(v)
      [] op = "op_not" -> op_not(v)

CallBinop(op, v1, v2) ==
    CASE op = "op_add" -> op_add(v1, v2)
      [] op = "op_sub" -> op_sub(v1, v2)
      [] op = "op_mul" -> op_mul(v1, v2)
      [] op = "op_div" -> op_div(v1, v2)
      [] op = "op_eq" -> op_eq(v1, v2)
      [] op = "op_gt" -> op_gt(v1, v2)
      [] op = "op_lt" -> op_lt(v1, v2)

unop_typecheck(m, checker, desc) ==
    IF ~PeekIsSome(m, 0) THEN Panic(m, "peek: empty stack")
    ELSE IF CallChecker(checker, peek_at(m, 0)) THEN m
    ELSE runtime_error(m, <<"Expecting operand of type", desc>>)

binop_typecheck(m, checker, desc) ==
    IF ~PeekIsSome(m, 1) THEN Panic(m, "peek_at: empty stack")
    ELSE IF CallChecker(checker, peek_at(m, 0)) /\ CallChecker(checker, peek_at(m, 1)) THEN m
    ELSE runtime_error(m, <<"Expecting operands of type", desc>>)

binop_typecheck_both(m, checker, desc) ==
    IF ~PeekIsSome(m, 1) THEN Panic(m, "peek_at: empty stack")
    ELSE IF CallChecker2(checker, peek_at(m, 0), peek_at(m, 1)) THEN m
    ELSE runtime_error(m, <<"Expecting operands of type", desc>>)

lift_unop(m, op) ==
    IF Aborted(m) THEN m
    ELSE IF ~PopIsSome(m) THEN push(m, EMPTY)
    ELSE push(Popped(m), CallUnop(op, PopValue(m)))

\* Mutant of lift_binop: the operator gets the popped values in the
\* other order.
lift_binop_swapped(m, op) ==
    IF Aborted(m) THEN m
    ELSE IF ~PopIsSome(m) THEN push(m, EMPTY)
    ELSE LET v1 == PopValue(m)
             m1 == Popped(m)
         IN  IF ~PopIsSome(m1) THEN push(m1, EMPTY)
             ELSE push(Popped(m1), CallBinop(op, PopValue(m1), v1))

lift_binop(m, op) ==
    IF Aborted(m) THEN m
    ELSE IF ~PopIsSome(m) THEN push(m, EMPTY)
    ELSE LET v1 == PopValue(m)
             m1 == Popped(m)
         IN  IF ~PopIsSome(m1) THEN push(m1, EMPTY)
             ELSE push(Popped(m1), CallBinop(op, v1, PopValue(m1)))

\* ValueArray::read indexes the pool: an index past its end panics.
ConstInRange(idx) == idx < Len(chunk.value_array)

read(idx) == chunk.value_array[idx + 1]

\* Faulty variant of kop_print: the printed value is peeked, not popped.
kop_print_keeps(m) ==
    IF ~PopIsSome(m) THEN Panic(m, "kop_print: Expecting non-empty stack")
    ELSE [m EXCEPT !.out = Append(@, show_value(PopValue(m)))]

kop_print(m) ==
    IF ~PopIsSome(m) THEN Panic(m, "kop_print: Expecting non-empty stack")
    ELSE [Popped(m) EXCEPT !.out = Append(@, show_value(PopValue(m)))]

\* vm.rs define_variable: the name from the pool, the value from the stack.
vm_define_variable(m, name_idx) ==
    IF ~ConstInRange(name_idx) THEN Panic(m, "read: index out of bounds")
    ELSE IF ~is_string(read(name_idx))
         THEN Panic(m, "Expecting string as variable name")
    ELSE IF ~PopIsSome(m) THEN Panic(m, "define_variable: Expecting non-empty stack")
    ELSE update_global(Popped(m), read(name_idx).data, PopValue(m))

vm_constant(m, idx) ==
    IF ~ConstInRange(idx) THEN Panic(m, "read: index out of bounds")
    ELSE push(m, read(idx))

\* Faulty variant of vm_negate: a failed type check skips the operation.
vm_negate_skips_on_error(m) ==
    IF PeekIsSome(m, 0) /\ ~IsNumber(peek_at(m, 0))
    THEN unop_typecheck(m, "is_number", "number")
    ELSE lift_unop(unop_typecheck(m, "is_number", "number"), "op_negate")

vm_negate(m) == lift_unop(unop_typecheck(m, "is_number", "number"), "op_negate")

vm_not(m) == lift_unop(unop_typecheck(m, "is_bool_or_nil", "boolean or nil"), "op_not")

vm_add(m) ==
    lift_binop(binop_typecheck_both(m, "both_numbers_or_strings", "number or string"), "op_add")

vm_sub(m) == lift_binop(binop_typecheck(m, "is_number", "number"), "op_sub")

vm_div(m) == lift_binop(binop_typecheck(m, "is_number", "number"), "op_div")

vm_mul(m) == lift_binop(binop_typecheck(m, "is_number", "number"), "op_mul")

\* Mutant of vm_eq: equality type-checks its operands like the comparisons.
vm_eq_typechecked(m) == lift_binop(binop_typecheck(m, "is_number", "number"), "op_eq")

vm_eq(m) == lift_binop(m, "op_eq")

vm_gt(m) == lift_binop(binop_typecheck(m, "is_number", "number"), "op_gt")

vm_lt(m) == lift_binop(binop_typecheck(m, "is_number", "number"), "op_lt")

\* The instructions run has a match arm for; any other takes the `_` arm.
HandledOps ==
    {"RETURN", "OP_POP", "OP_KCALL", "OP_DEFINE_GLOBAL", "CONSTANT", "OP_NEGATE",
     "OP_NOT", "OP_ADD", "OP_SUB", "OP_DIV", "OP_MUL", "OP_EQ", "OP_GT", "OP_LT"}

FetchInRange == vm.pc < Len(chunk.data)

fetch == chunk.data[vm.pc + 1]

Fetched(op) == phase = "running" /\ FetchInRange /\ fetch.op = op

(***************************************************************************)
(* The disassembler and the tracer (debug.rs, vm.rs)                       *)
(***************************************************************************)
\* display_inst indexes chunk.value_array.data with the instruction's index.
DisplayInRange(inst) ==
    /\ inst.op = "CONSTANT" => ConstInRange(inst.idx)
    /\ inst.op \in {"OP_DEFINE_GLOBAL", "OP_GET_GLOBAL"} => ConstInRange(inst.name_idx)

\* The text display_inst prints: the name, the index, the pool entry shown.
display_inst(inst) ==
    CASE inst.op = "CONSTANT" ->
           [op |-> "CONSTANT", idx |-> inst.idx, shown |-> show_value(read(inst.idx))]
      [] inst.op = "OP_DEFINE_GLOBAL" ->
           [op |-> "DEFINE_GLOBAL", idx |-> inst.name_idx,
            shown |-> show_value(read(inst.name_idx))]
      [] inst.op = "OP_GET_GLOBAL" ->
           [op |-> "GET_GLOBAL", idx |-> inst.name_idx,
            shown |-> show_value(read(inst.name_idx))]
      [] inst.op = "OP_KCALL" -> [op |-> "OP_KCALL", idx |-> 0, shown |-> <<>>]
      [] OTHER -> [op |-> inst.op, idx |-> -1, shown |-> <<>>]

\* The values display_stack prints: the sp slots in use, bottom first.
display_stack(m) == [i \in 1..sp(m) |-> show_value(m.stack[i])]

\* The bindings display_globals prints, in the HashMap's own order.
display_globals(m) == [k \in DOMAIN m.globals |-> show_value(m.globals[k])]

\* One printed line: a line of the listing (kind "code", its line number)
\* or the three lines of one round of the trace (kind "trace").
TraceLine(kind, line, stack, globals, inst) ==
    [kind |-> kind, line |-> line, stack |-> stack, globals |-> globals, inst |-> inst]

\* disassemble_chunk: the header, then one line for each instruction; the
\* line number is printed when it differs from the one before.
disassemble_chunk(printed) ==
    IF \E i \in 1..Len(chunk.data) : ~DisplayInRange(chunk.data[i])
    THEN [printed |-> printed, abort |-> "display_inst: index out of bounds"]
    ELSE [printed |-> printed
                        \o [i \in 1..Len(chunk.data) |->
                              TraceLine("code",
                                        IF i = 1 \/ chunk.lines[i] /= chunk.lines[i - 1]
                                        THEN chunk.lines[i] ELSE -1,
                                        <<>>, EmptyGlobals, display_inst(chunk.data[i]))],
          abort |-> "none"]

\* Faulty variant of Traced: display_stack drops the top of the stack it
\* has printed.
Traced_drains(m) ==
    IF ~vm.enable_trace THEN m
    ELSE [m EXCEPT !.traced = Append(@, TraceLine("trace", -1, display_stack(m),
                                                   display_globals(m), display_inst(fetch))),
                   !.stack = IF @ = <<>> THEN @ ELSE SubSeq(@, 1, Len(@) - 1)]

\* if self.enable_trace { display_stack; display_globals; display_inst }
Traced(m) ==
    IF ~vm.enable_trace THEN m
    ELSE IF ~DisplayInRange(fetch) THEN Panic(m, "display_inst: index out of bounds")
    ELSE [m EXCEPT !.traced = Append(@, TraceLine("trace", -1, display_stack(m),
                                                   display_globals(m), display_inst(fetch)))]

\* The VM an instruction of run works on: after the trace, if it is on.
M == Traced(Machine)

\* The VM after one instruction and self.step(); a panic aborts.
VMCommit(m) ==
    /\ vm' = [vm EXCEPT !.pc = IF Aborted(m) THEN @ ELSE @ + 1,
                        !.stack = m.stack,
                        !.globals = m.globals]
    /\ out' = m.out
    /\ rt_errors' = m.rt_errors
    /\ traced' = m.traced
    /\ panicked' = m.abort
    /\ phase' = IF Aborted(m) THEN "aborted" ELSE phase
    /\ UNCHANGED <<source, debug_mode, scanner, parser, chunk, kstack, diags, error_calls, result>>

\* break InterpretResult::...: run returns and interpret returns its result.
VMBreak(res) ==
    /\ result' = IF Aborted(M) THEN result ELSE res
    /\ phase' = IF Aborted(M) THEN "aborted" ELSE "done"
    /\ panicked' = M.abort
    /\ vm' = [vm EXCEPT !.stack = M.stack, !.globals = M.globals]
    /\ traced' = M.traced
    /\ UNCHANGED <<source, debug_mode, scanner, parser, chunk, kstack, diags, error_calls,
                   out, rt_errors>>

VMReturn == Fetched("RETURN") /\ VMBreak("Ok")

\* Faulty variant of VMUnhandled: the unhandled instruction aborts the host
\* instead of breaking out of the loop.
VMUnhandled_aborts ==
    /\ phase = "running"
    /\ FetchInRange
    /\ fetch.op \notin HandledOps
    /\ phase' = "aborted"
    /\ panicked' = "run: unhandled instruction"
    /\ traced' = M.traced
    /\ UNCHANGED <<source, debug_mode, scanner, parser, chunk, kstack, diags, error_calls,
                   result, vm, out, rt_errors>>

\* The `_` arm: an instruction with no arm of its own (OP_GET_GLOBAL).
VMUnhandled ==
    /\ phase = "running"
    /\ FetchInRange
    /\ fetch.op \notin HandledOps
    /\ VMBreak("RuntimeError")

\* self.pop(): the Option is dropped.
vm_pop(m) == IF PopIsSome(m) THEN Popped(m) ELSE m

VMPop == Fetched("OP_POP") /\ VMCommit(vm_pop(M))

\* KERNAL_METHODS has the one entry 0 => kop_print, KMethod the one variant.
VMKCall == Fetched("OP_KCALL") /\ VMCommit(kop_print(M))

VMDefineGlobal ==
    Fetched("OP_DEFINE_GLOBAL") /\ VMCommit(vm_define_variable(M, fetch.name_idx))

VMConstant == Fetched("CONSTANT") /\ VMCommit(vm_constant(M, fetch.idx))

VMNegate == Fetched("OP_NEGATE") /\ VMCommit(vm_negate(M))

VMNot == Fetched("OP_NOT") /\ VMCommit(vm_not(M))

VMAdd == Fetched("OP_ADD") /\ VMCommit(vm_add(M))

VMSub == Fetched("OP_SUB") /\ VMCommit(vm_sub(M))

VMDiv == Fetched("OP_DIV") /\ VMCommit(vm_div(M))

VMMul == Fetched("OP_MUL") /\ VMCommit(vm_mul(M))

VMEq == Fetched("OP_EQ") /\ VMCommit(vm_eq(M))

VMGt == Fetched("OP_GT") /\ VMCommit(vm_gt(M))

VMLt == Fetched("OP_LT") /\ VMCommit(vm_lt(M))

(***************************************************************************)
(* Driver::interpret (driver.rs) after compile has returned                *)
(***************************************************************************)
\* Mutant of comp_res: compile reports success whatever it recorded.
comp_res_always_true == TRUE

\* compile's result: !self.parser.had_error
comp_res == ~parser.had_error

InterpretCompileError ==
    /\ phase = "compiled"
    /\ ~comp_res
    /\ result' = "CompileError"
    /\ phase' = "done"
    /\ UNCHANGED <<source, debug_mode, scanner, parser, chunk, kstack, diags, error_calls,
                   panicked, vm, out, rt_errors, traced>>

\* VM::new, then with debug_mode trace_on and disassemble_chunk, then run.
InterpretRun ==
    /\ phase = "compiled"
    /\ comp_res
    /\ LET listing == IF debug_mode THEN disassemble_chunk(traced)
                      ELSE [printed |-> traced, abort |-> "none"]
       IN  /\ vm' = [VM_new EXCEPT !.enable_trace = debug_mode]
           /\ traced' = listing.printed
           /\ panicked' = listing.abort
           /\ phase' = IF listing.abort /= "none" THEN "aborted" ELSE "running"
    /\ UNCHANGED <<source, debug_mode, scanner, parser, chunk, kstack, diags, error_calls,
                   result, out, rt_errors>>

(***************************************************************************)
(* The source texts the model runs.  Sources holds every text over         *)
(* Alphabet of at most MaxLen characters, every one-operator program over  *)
(* Operands, and the programs the specification discusses.                 *)
(***************************************************************************)
MaxLen == 3

Alphabet == {"1", ".", ";", "-", "\"", "a", "=", "(", "\n", "$"}

\* The characters of the texts that exercise the scanner.
LexAlphabet == {"1", ".", "a", "_", "=", "!", "/", "\n", " ", "<"}

\* A text of n characters is a function from 1..n, that is, a sequence.
ShortTexts == UNION {[1..n -> Alphabet] : n \in 0..MaxLen}

LexTexts == UNION {[1..n -> LexAlphabet] : n \in 0..MaxLen}

T_var == <<"v", "a", "r", " ">>

T_print == <<"p", "r", "i", "n", "t", " ">>

T_nil == <<"n", "i", "l">>

T_true == <<"t", "r", "u", "e">>

T_false == <<"f", "a", "l", "s", "e">>

Operands ==
    {<<"0">>, <<"1">>, <<"2">>, <<"3">>, <<"5">>, <<"1", "0">>, <<"2", ".", "5">>,
     T_nil, T_true, T_false,
     <<"\"", "a", "\"">>, <<"\"", "b", "\"">>, <<"\"", "1", "\"">>, <<"\"", "\"">>}

BinaryOperators == {<<"+">>, <<"-">>, <<"*">>, <<"/">>, <<"=", "=">>, <<">">>, <<"<">>}

UnaryOperators == {<<"-">>, <<"!">>}

\* print a op b;
BinaryPrograms ==
    {T_print \o a \o o \o b \o <<";">> : a \in Operands, o \in BinaryOperators, b \in Operands}

\* print op a;   and   print (op a) == b;
UnaryPrograms ==
    {T_print \o u \o a \o <<";">> : u \in UnaryOperators, a \in Operands}
    \cup {T_print \o <<"(">> \o u \o a \o <<")", "=", "=">> \o b \o <<";">> :
            u \in UnaryOperators, a \in {T_nil, <<"0">>, <<"1">>}, b \in Operands}

Src_VarPrint == T_var \o <<"x", " ", "=", " ", "1", ";", " ">> \o T_print \o <<"x", ";">>

Src_Redefine ==
    T_var \o <<"x", "=", "1", ";">> \o T_var \o <<"y", "=", "3", ";">>
          \o T_var \o <<"x", "=", "2", ";">>

Src_VarNoInit == T_var \o <<"x", ";">> \o T_var \o <<"x", "=", "\"", "a", "\"", ";">>

Src_PrintUndeclared == T_print \o <<"y", ";">>

Src_Malformed == T_print \o <<"1", " ", "+", ";">>

Src_TwoErrors == T_print \o <<"1", " ", "+", ";", "\n">> \o T_print \o <<")", ";", "$">>

Src_ErrorThenCode == <<"$", "1", ";">> \o T_print \o <<"2", ";">>

Src_Arith == T_print \o <<"1", " ", "+", " ", "2", " ", "*", " ", "3", " ", "-", " ", "1", ";">>

Src_Grouping == T_print \o <<"(", "1", "+", "2", ")", "*", "-", "3", ";">>

Src_Comment == <<"/", "/", " ", "c", "\n">> \o T_print \o <<"1", ";", "\n", "2", ";">>

Src_GreaterEqual == <<"1", ">", "=", "2", ";">>

Src_If == <<"i", "f", ";">>

Src_Unterminated == T_print \o <<"\"", "a", "b">>

Src_MissingName == T_var \o <<"=", "1", ";">>

Src_Sub == T_print \o <<"1", "0", " ", "-", " ", "3", ";">>

Src_Div == T_print \o <<"1", "0", " ", "/", " ", "2", ";">>

Src_Lt == T_print \o <<"3", " ", "<", " ", "5", ";">>

Src_Concat == T_print \o <<"\"", "a", "\"", " ", "+", " ", "\"", "b", "\"", ";">>

Src_NilEq == T_print \o T_nil \o <<" ", "=", "=", " ">> \o T_nil \o <<";">>

Src_NumEqStr == T_print \o <<"1", " ", "=", "=", " ", "\"", "1", "\"", ";">>

Src_NaNEq ==
    T_print \o <<"(", "0", "/", "0", ")", "=", "=", "(", "0", "/", "0", ")", ";">>

\* 1+(1+(...(1)...)) with n additions: n + 1 operands are on the stack when
\* the innermost 1 has been loaded.
Nested(n) ==
    [i \in 1..(4 * n + 1) |->
        IF i > 3 * n + 1 THEN ")"
        ELSE CASE i % 3 = 1 -> "1"
               [] i % 3 = 2 -> "+"
               [] OTHER -> "("]

\* An expression statement that needs one slot more than the stack has.
Src_Deep == Nested(STACK_MAX) \o <<";">>

\* An expression statement that fills the stack exactly.
Src_Full == Nested(STACK_MAX - 1) \o <<";">>

Src_EmptyAdd == T_print \o <<"(", "-">> \o T_nil \o <<")", "+", "1", ";">>

Src_Lex == <<"1", " ", "+", " ", "2", ".", "5", " ", "*", " ", "f", "o", "o">>

\* The longest chain of binary operators in the expression statements
\* 1 op 2 op 3 ... ;
MaxChain == 3

ChainDigits == <<"1", "2", "3", "4", "5", "6", "7", "8", "9">>

RECURSIVE Chain(_, _)
Chain(ops, k) ==
    IF k = 0 THEN <<ChainDigits[1]>>
    ELSE Chain(ops, k - 1) \o ops[k] \o <<ChainDigits[k + 1]>>

ChainProgram(ops) == Chain(ops, Len(ops)) \o <<";">>

ChainOps == UNION {[1..n -> BinaryOperators] : n \in 1..MaxChain}

ChainPrograms == {ChainProgram(ops) : ops \in ChainOps}

Src_LeftAssoc == <<"a", " ", "-", " ", "b", " ", "-", " ", "c", ";">>

Src_PrecMix == <<"a", " ", "+", " ", "b", " ", "*", " ", "c", ";">>

Src_NegAdd == <<"-", "a", " ", "+", " ", "b", ";">>

Src_PrintNegAdd == T_print \o <<"-", "1", " ", "+", " ", "2", ";">>

Src_NumberLast == T_print \o <<"1", "2">>

Programs ==
    {Src_VarPrint, Src_Redefine, Src_VarNoInit, Src_PrintUndeclared, Src_Malformed,
     Src_TwoErrors, Src_ErrorThenCode, Src_Arith, Src_Grouping, Src_Comment,
     Src_GreaterEqual, Src_If, Src_Unterminated, Src_MissingName, Src_Sub, Src_Div,
     Src_Lt, Src_Concat, Src_NilEq, Src_NumEqStr, Src_NaNEq, Src_Deep, Src_Full,
     Src_EmptyAdd, Src_Lex, Src_LeftAssoc, Src_PrecMix, Src_NegAdd,
     Src_PrintNegAdd, Src_NumberLast}

Sources ==
    ShortTexts \cup LexTexts \cup ChainPrograms \cup BinaryPrograms \cup UnaryPrograms \cup Programs

(***************************************************************************)
(* The specification: Driver::interpret(source)                            *)
(***************************************************************************)
\* Compiler::new(source) in Driver::interpret; the driver has had debug()
\* called (the REPL) or not.
Init ==
    /\ source \in Sources
    /\ scanner = ScannerState_new
    /\ parser = ParserState_new
    /\ chunk = Chunk_new
    /\ kstack = <<Frame("compile")>>
    /\ diags = <<>>
    /\ error_calls = 0
    /\ phase = "compile"
    /\ panicked = "none"
    /\ vm = VM_idle
    /\ result = "none"
    /\ out = <<>>
    /\ rt_errors = <<>>
    /\ debug_mode \in BOOLEAN
    /\ traced = <<>>

Next ==
    \/ CompileStart
    \/ CompileLoopDecl
    \/ CompileReturn
    \/ ParseDecl
    \/ ParseVarDecl
    \/ VarDeclEnd
    \/ ParseStmt
    \/ ExprStmtEnd
    \/ PrintStmtEnd
    \/ ParsePrec
    \/ PrecLoop
    \/ GroupingEnd
    \/ UnaryEnd
    \/ BinaryEnd
    \/ InterpretCompileError
    \/ InterpretRun
    \/ VMReturn
    \/ VMUnhandled
    \/ VMPop
    \/ VMKCall
    \/ VMDefineGlobal
    \/ VMConstant
    \/ VMNegate
    \/ VMNot
    \/ VMAdd
    \/ VMSub
    \/ VMDiv
    \/ VMMul
    \/ VMEq
    \/ VMGt
    \/ VMLt

Spec == Init /\ [][Next]_vars

(***************************************************************************)
(* Properties                                                              *)
(***************************************************************************)
\* The instruction the VM executed last (pc has been stepped past it).
Executed(op) == phase = "running" /\ vm.pc > 0 /\ chunk.data[vm.pc].op = op

GlobalName(inst) == read(inst.name_idx).data

\* C1: executing the read-global instruction on a name bound by an earlier
\* `var name = <expr>;` pushes the value bound to the name and execution
\* continues with the next instruction, so the run does not end at a
\* read-global of a bound name, and `var x = 1; print x;` prints 1 and run
\* returns Ok.
C1_ReadGlobalPushesBinding ==
    /\ ~(/\ phase = "done"
         /\ result = "RuntimeError"
         /\ FetchInRange
         /\ fetch.op = "OP_GET_GLOBAL"
         /\ GlobalName(fetch) \in DOMAIN vm.globals)
    /\ (phase = "done" /\ source = Src_VarPrint) => (result = "Ok" /\ out = <<<<"1">>>>)

\* C2: define-global with name index i pops exactly one value v, leaves
\* every slot below it unchanged, and afterwards globals[name(i)] = v
\* whether or not the name was bound before; every binding of another name
\* is unchanged.
C2_DefineGlobalBindsPoppedValue ==
    [][Fetched("OP_DEFINE_GLOBAL") =>
         LET name == GlobalName(fetch)
             v    == vm.stack[Len(vm.stack)]
         IN  /\ vm'.stack = SubSeq(vm.stack, 1, Len(vm.stack) - 1)
             /\ DOMAIN vm'.globals = DOMAIN vm.globals \cup {name}
             /\ vm'.globals[name] = v
             /\ \A n \in DOMAIN vm.globals \ {name} : vm'.globals[n] = vm.globals[n]
             /\ vm'.pc = vm.pc + 1]_vars

\* A define-global has just rebound x (to 2, after 1) while y stays bound.
C2_Witness ==
    /\ Executed("OP_DEFINE_GLOBAL")
    /\ \E j \in 1..(vm.pc - 1) :
          /\ chunk.data[j].op = "OP_DEFINE_GLOBAL"
          /\ GlobalName(chunk.data[j]) = GlobalName(chunk.data[vm.pc])
    /\ DOMAIN vm.globals = {<<"x">>, <<"y">>}
    /\ vm.globals[<<"x">>] = Fin(1, 2, 1)
    /\ vm.globals[<<"y">>] = Fin(1, 3, 1)
    /\ vm.stack = <<>>

\* The value on top of the operand stack.
TopOfStack == vm.stack[Len(vm.stack)]

\* The operands of the binary instruction at (0-based) index i when both
\* were loaded by the two instructions before it: the left one first.
LoadsBefore(i) ==
    /\ i >= 2
    /\ chunk.data[i].op = "CONSTANT"
    /\ chunk.data[i - 1].op = "CONSTANT"

LeftLoaded(i) == read(chunk.data[i - 1].idx)

RightLoaded(i) == read(chunk.data[i].idx)

\* The source operator applied to a on the left and b on the right.
Applied(op, a, b) ==
    CASE op = "OP_SUB" -> f64_sub(a, b)
      [] op = "OP_DIV" -> f64_div(a, b)
      [] op = "OP_GT" -> BOOL(f64_gt(a, b))
      [] op = "OP_LT" -> BOOL(f64_lt(a, b))

\* C3: for numbers a and b, the code compiled for a - b, a / b, a > b and
\* a < b leaves on the stack the operator applied to a (loaded first,
\* popped second) on the left and b (loaded second, popped first) on the
\* right; 10 - 3 gives 7, 10 / 2 gives 5 and 3 < 5 gives true.
C3_BinaryOperandOrder ==
    /\ (/\ phase = "running"
        /\ vm.pc > 0
        /\ chunk.data[vm.pc].op \in {"OP_SUB", "OP_DIV", "OP_GT", "OP_LT"}
        /\ LoadsBefore(vm.pc - 1)
        /\ is_double(LeftLoaded(vm.pc - 1))
        /\ is_double(RightLoaded(vm.pc - 1)))
       => (/\ vm.stack /= <<>>
           /\ TopOfStack = Applied(chunk.data[vm.pc].op,
                                   LeftLoaded(vm.pc - 1), RightLoaded(vm.pc - 1)))
    /\ (phase = "done" /\ source = Src_Sub) => out = <<<<"7">>>>
    /\ (phase = "done" /\ source = Src_Div) => out = <<<<"5">>>>
    /\ (phase = "done" /\ source = Src_Lt) => out = <<T_true>>

\* OP_DIV has just divided 10 by 2.
C3_Witness ==
    /\ source = Src_Div
    /\ Executed("OP_DIV")
    /\ LeftLoaded(vm.pc - 1) = Fin(1, 10, 1)
    /\ RightLoaded(vm.pc - 1) = Fin(1, 2, 1)
    /\ vm.stack = <<Fin(1, 5, 1)>>

StringTexts == {<<"a">>, <<"b">>, <<"1">>, <<>>}

Quoted(s) == <<"\"">> \o s \o <<"\"">>

\* print "s"+"t";
ConcatProgram(s, t) == T_print \o Quoted(s) \o <<"+">> \o Quoted(t) \o <<";">>

\* C4 as stated: `print "a" + "b";` prints ba, and the sum of two strings
\* is the right-hand operand's text followed by the left-hand operand's.
C4_ConcatRightThenLeft ==
    /\ (phase = "done" /\ source = Src_Concat)
          => out = <<show_value(create_string_obj(<<"b", "a">>))>>
    /\ \A s, t \in StringTexts :
          (phase = "done" /\ source = ConcatProgram(s, t))
             => out = <<show_value(create_string_obj(t \o s))>>

\* C4 as amended: `print "a" + "b";` prints 'ab', and the sum of two
\* strings is the left-hand operand's text followed by the right-hand
\* operand's.
C4_ConcatLeftThenRight ==
    /\ (phase = "done" /\ source = Src_Concat)
          => (result = "Ok" /\ out = <<<<"'", "a", "b", "'">>>>)
    /\ \A s, t \in StringTexts :
          (phase = "done" /\ source = ConcatProgram(s, t))
             => (result = "Ok" /\ out = <<<<"'">> \o s \o t \o <<"'">>>>)

C4_Witness ==
    /\ phase = "done"
    /\ source = Src_Concat
    /\ out = <<<<"'", "a", "b", "'">>>>

\* C5: binary add on two strings replaces them by the second-popped
\* operand's text followed by the first-popped operand's text and reports
\* no error; the second-popped operand is the one loaded first, so the
\* order is the left-to-right order of the operands in the source.
C5_AddConcatenatesInSourceOrder ==
    [][(/\ Fetched("OP_ADD")
        /\ Len(vm.stack) >= 2
        /\ is_string(vm.stack[Len(vm.stack)])
        /\ is_string(vm.stack[Len(vm.stack) - 1]))
       => (/\ vm'.stack =
                 Append(SubSeq(vm.stack, 1, Len(vm.stack) - 2),
                        create_string_obj(vm.stack[Len(vm.stack) - 1].data
                                          \o vm.stack[Len(vm.stack)].data))
           /\ rt_errors' = rt_errors
           /\ LoadsBefore(vm.pc)
                 => (/\ vm.stack[Len(vm.stack) - 1] = LeftLoaded(vm.pc)
                     /\ vm.stack[Len(vm.stack)] = RightLoaded(vm.pc)
                     /\ chunk.data[vm.pc - 1].idx < chunk.data[vm.pc].idx))]_vars

\* OP_ADD has just concatenated "b" and "1".
C5_Witness ==
    /\ source = ConcatProgram(<<"b">>, <<"1">>)
    /\ Executed("OP_ADD")
    /\ vm.stack = <<create_string_obj(<<"b", "1">>)>>
    /\ rt_errors = <<>>

\* Two values have the same type among double, bool, nil and string, and
\* equal contents (numeric equality for doubles, the text for strings).
SameTypeAndContents(a, b) ==
    CASE a.t = "DOUBLE" /\ b.t = "DOUBLE" ->
           /\ a.k /= "nan"
           /\ b.k /= "nan"
           /\ (a = b \/ (a.k = "fin" /\ b.k = "fin" /\ a.n = 0 /\ b.n = 0))
      [] a.t = "BOOL" /\ b.t = "BOOL" -> a.data = b.data
      [] a.t = "NIL" /\ b.t = "NIL" -> TRUE
      [] a.t = "OBJ" /\ b.t = "OBJ" -> a.data = b.data
      [] OTHER -> FALSE

\* C6: the equality instruction raises no runtime error and does not
\* abort for any pair of operands: it replaces them by true exactly when
\* they have the same type and equal contents, and by false for every
\* cross-type pair; nil == nil prints true and 1 == "1" prints false.
C6_EqualityNeverErrors ==
    /\ [][Fetched("OP_EQ")
          => (/\ Len(vm.stack) >= 2
              /\ vm'.stack =
                    Append(SubSeq(vm.stack, 1, Len(vm.stack) - 2),
                           BOOL(SameTypeAndContents(vm.stack[Len(vm.stack) - 1],
                                                    vm.stack[Len(vm.stack)])))
              /\ rt_errors' = rt_errors
              /\ panicked' = "none"
              /\ phase' = "running"
              /\ vm'.pc = vm.pc + 1)]_vars
    /\ [](((phase = "done" /\ source = Src_NilEq) => out = <<T_true>>)
          /\ ((phase = "done" /\ source = Src_NumEqStr) => out = <<T_false>>))

\* OP_EQ has just compared the number 1 with the string "1".
C6_Witness ==
    /\ source = Src_NumEqStr
    /\ Executed("OP_EQ")
    /\ LeftLoaded(vm.pc - 1) = Fin(1, 1, 1)
    /\ RightLoaded(vm.pc - 1) = create_string_obj(<<"1">>)
    /\ vm.stack = <<BOOL(FALSE)>>
    /\ rt_errors = <<>>

\* C7: once compile has recorded an error no instruction of the chunk is
\* executed: no VM is created, the program prints nothing, raises no
\* runtime error and defines no global, and interpret, when compile hands
\* it the result, returns CompileError and nothing else.
C7_NoExecutionAfterCompileError ==
    /\ [](parser.had_error
            => (/\ ~vm.created
                /\ vm.pc = 0
                /\ vm.stack = <<>>
                /\ DOMAIN vm.globals = {}
                /\ out = <<>>
                /\ rt_errors = <<>>
                /\ phase /= "running"
                /\ result \in {"none", "CompileError"}
                /\ phase = "done" => result = "CompileError"))
    /\ [][(phase = "compiled" /\ parser.had_error)
             => (phase' = "done" /\ result' = "CompileError" /\ vm' = vm)]_vars

\* interpret has returned CompileError for a source whose chunk already
\* held instructions when the compile ended.
C7_Witness ==
    /\ phase = "done"
    /\ result = "CompileError"
    /\ parser.had_error
    /\ Len(chunk.data) > 1
    /\ ~vm.created
    /\ out = <<>>

\* C8: one compilation prints at most one diagnostic however many errors
\* the source holds: the first error_at call sets panic_mode and prints,
\* panic_mode is never cleared, no call made while it is set prints
\* anything, and had_error equals panic_mode in every state; `print 1 +;`
\* prints exactly one diagnostic.
C8_AtMostOneDiagnostic ==
    /\ [](/\ Len(diags) <= 1
          /\ parser.had_error = parser.panic_mode
          /\ parser.panic_mode <=> Len(diags) = 1
          /\ parser.panic_mode <=> error_calls > 0
          /\ (source = Src_Malformed /\ phase = "done")
                => (Len(diags) = 1 /\ result = "CompileError"))
    /\ [][parser.panic_mode => (parser'.panic_mode /\ diags' = diags)]_vars

\* Several error_at calls were made and one diagnostic was printed.
C8_Witness ==
    /\ source = Src_TwoErrors
    /\ phase = "done"
    /\ error_calls >= 3
    /\ Len(diags) = 1
    /\ parser.panic_mode

\* C9: a compile that returns, returns false exactly when it met at least
\* one lexical or syntactic error (every one is reported through error_at:
\* an Error token in advance, a failed consume, a missing prefix or infix
\* action in parse_prec), and interpret returns CompileError exactly then.
C9_CompileFalseIffError ==
    /\ phase \in {"compiled", "running", "done"}
          => (comp_res <=> error_calls = 0)
    /\ phase = "done" => (result = "CompileError" <=> error_calls > 0)
    /\ phase = "running" => error_calls = 0

\* compile has returned false for a source with an unterminated string.
C9_Witness ==
    /\ source = Src_Unterminated
    /\ phase = "compiled"
    /\ ~comp_res
    /\ error_calls > 0
    /\ diags[1].msg = <<"Non-terminated string literal">>

\* C10: for every source the compile reaches its end: it never stops
\* inside the declaration loop, and the chunk it leaves ends with RETURN.
C10_CompileEndsWithReturn ==
    /\ ~(phase = "aborted" /\ ~vm.created)
    /\ phase \in {"compiled", "running", "done"}
          => (chunk.data /= <<>> /\ chunk.data[Len(chunk.data)].op = "RETURN")

\* C11: every token the scanner has delivered to the parser is of a kind
\* the parse table has an entry for, and no rule lookup of parse_prec or
\* parse_binary aborts the compiler.
C11_EveryDeliveredTokenHasRule ==
    /\ parser.current.tp \in TokenType
    /\ parser.current.tp /= "Error" => HasRule(parser.current.tp)
    /\ parser.previous.tp /= "Error" => HasRule(parser.previous.tp)
    /\ panicked /= "get_rule: no entry in the parse table"

\* C12: when a successfully compiled program reads a global that no var
\* declaration has bound, run returns RuntimeError from that instruction:
\* the host does not abort and the statement prints nothing; `print y;`
\* ends with RuntimeError and no output.
C12_UndeclaredReadIsRuntimeError ==
    /\ [][(/\ phase = "running"
           /\ FetchInRange
           /\ fetch.op = "OP_GET_GLOBAL"
           /\ GlobalName(fetch) \notin DOMAIN vm.globals)
          => (/\ phase' = "done"
              /\ result' = "RuntimeError"
              /\ panicked' = "none"
              /\ out' = out
              /\ vm' = vm)]_vars
    /\ []((source = Src_PrintUndeclared /\ phase = "done")
             => (result = "RuntimeError" /\ out = <<>> /\ panicked = "none"))

\* run has returned RuntimeError at the read of y in `print y;`.
C12_Witness ==
    /\ source = Src_PrintUndeclared
    /\ phase = "done"
    /\ result = "RuntimeError"
    /\ fetch.op = "OP_GET_GLOBAL"
    /\ GlobalName(fetch) = <<"y">>
    /\ <<"y">> \notin DOMAIN vm.globals
    /\ out = <<>>

\* The run has stopped at a read of a global no declaration has bound.
StoppedAtUndeclaredRead ==
    /\ FetchInRange
    /\ fetch.op = "OP_GET_GLOBAL"
    /\ GlobalName(fetch) \notin DOMAIN vm.globals

\* C13: a program that compiles without error, applies every operator to
\* operands of the required types (no type check fails) and reads only
\* declared globals prints no diagnostic, and run returns Ok.
C13_WellFormedProgramRunsOk ==
    (/\ phase = "done"
     /\ comp_res
     /\ rt_errors = <<>>
     /\ ~StoppedAtUndeclaredRead)
       => (result = "Ok" /\ diags = <<>>)

\* C14: while a successfully compiled program runs, the stack holds at
\* most STACK_MAX values and no push is executed on a full stack.
C14_StackPointerWithinCapacity ==
    /\ Len(vm.stack) <= STACK_MAX
    /\ panicked /= "push: index out of bounds"

\* print -a;
NegateProgram(a) == T_print \o <<"-">> \o a \o <<";">>

\* C15: unary negate on a top of stack that is not a double reports one
\* runtime type error, replaces the operand by EMPTY (the depth and the
\* values below are unchanged) and goes on with the next instruction; the
\* run of `print -a;` for such an a still returns Ok at RETURN.
C15_NegateTypeErrorContinues ==
    /\ [][(/\ Fetched("OP_NEGATE")
           /\ vm.stack /= <<>>
           /\ ~is_double(TopOfStack))
          => (/\ Len(rt_errors') = Len(rt_errors) + 1
              /\ SubSeq(rt_errors', 1, Len(rt_errors)) = rt_errors
              /\ rt_errors'[Len(rt_errors')].msg = <<"Expecting operand of type", "number">>
              /\ vm'.stack = Append(SubSeq(vm.stack, 1, Len(vm.stack) - 1), EMPTY)
              /\ vm'.pc = vm.pc + 1
              /\ phase' = "running"
              /\ panicked' = "none"
              /\ out' = out)]_vars
    /\ [](\A a \in {T_nil, T_true, T_false, Quoted(<<"a">>)} :
             (source = NegateProgram(a) /\ phase = "done")
                => (/\ result = "Ok"
                    /\ Len(rt_errors) = 1
                    /\ out = <<show_value(EMPTY)>>))

\* The run of `print -nil;` has returned Ok after the type error.
C15_Witness ==
    /\ source = NegateProgram(T_nil)
    /\ phase = "done"
    /\ result = "Ok"
    /\ Len(rt_errors) = 1
    /\ out = <<<<"E", "M", "P", "T", "Y">>>>

\* The operand pairs binary add accepts: two doubles or two strings.
AddAccepts(a, b) ==
    (a.t = "DOUBLE" /\ b.t = "DOUBLE") \/ (a.t = "OBJ" /\ b.t = "OBJ")

\* C16: binary add replaces its two operands by one result; for two doubles
\* or two strings it reports no error and the result is a value of that
\* type, for every other pair it reports one runtime type error and the
\* result is EMPTY.
C16_AddTypeCheck ==
    [][Fetched("OP_ADD")
       => (/\ Len(vm.stack) >= 2
           /\ Len(vm'.stack) = Len(vm.stack) - 1
           /\ SubSeq(vm'.stack, 1, Len(vm.stack) - 2)
                 = SubSeq(vm.stack, 1, Len(vm.stack) - 2)
           /\ LET a == vm.stack[Len(vm.stack) - 1]
                  b == vm.stack[Len(vm.stack)]
                  r == vm'.stack[Len(vm'.stack)]
              IN  IF AddAccepts(a, b)
                  THEN /\ rt_errors' = rt_errors
                       /\ r /= EMPTY
                       /\ r.t = a.t
                  ELSE /\ Len(rt_errors') = Len(rt_errors) + 1
                       /\ rt_errors'[Len(rt_errors')].msg
                             = <<"Expecting operands of type", "number or string">>
                       /\ r = EMPTY)]_vars

\* OP_ADD has just been executed on the double 1 and the string "a".
C16_Witness ==
    /\ Executed("OP_ADD")
    /\ LoadsBefore(vm.pc - 1)
    /\ LeftLoaded(vm.pc - 1) = Fin(1, 1, 1)
    /\ RightLoaded(vm.pc - 1) = create_string_obj(<<"a">>)
    /\ vm.stack = <<EMPTY>>
    /\ Len(rt_errors) = 1

\* C17: once the cursor is at the end of the source, next_token returns
\* an EOF token and leaves the cursor and the line counter as they are,
\* and so does every call after it; a step of the compiler taken in such
\* a state moves neither and delivers only EOF.
C17_EofIsIdempotent ==
    /\ [](scanner.current >= Len(source)
            => LET r == next_token(source, scanner)
                   r2 == next_token(source, r.sc)
               IN  /\ ~r.panic
                   /\ r.tok.tp = "EOF"
                   /\ r.tok.content = <<>>
                   /\ r.sc.current = scanner.current
                   /\ r.sc.line = scanner.line
                   /\ r2 = r)
    /\ [][scanner.current >= Len(source)
            => (/\ scanner'.current = scanner.current
                /\ scanner'.line = scanner.line
                /\ parser'.current /= parser.current => parser'.current.tp = "EOF")]_vars

\* next_token has been called again at the end of a source of three lines:
\* both tokens of the parser are EOF.
C17_Witness ==
    /\ scanner.current = Len(source)
    /\ scanner.line = 3
    /\ parser.previous.tp = "EOF"
    /\ parser.current.tp = "EOF"
    /\ parser.previous = parser.current

\* The number of newlines among the first k characters of src.
NewlinesUpTo(src, k) == Cardinality({i \in 1..k : src[i] = "\n"})

\* Character i of src is whitespace, or lies in a // comment that starts
\* at or after position from.
Skippable(src, from, i) ==
    \/ src[i] \in {" ", "\r", "\t", "\n"}
    \/ \E j \in from..i :
          /\ j + 1 <= Len(src)
          /\ src[j] = "/"
          /\ src[j + 1] = "/"
          /\ \A k \in j..i : src[k] /= "\n"

\* The text is digits, then optionally a `.` and digits.
IsNumberText(t) ==
    /\ t /= <<>>
    /\ is_digit(t[1])
    /\ \A i \in 1..Len(t) : is_digit(t[i]) \/ t[i] = "."
    /\ Cardinality({i \in 1..Len(t) : t[i] = "."}) <= 1

\* The token kinds of the operators that may merge with a following `=`.
MergedKind(c) ==
    CASE c = "!" -> "BangEqual"
      [] c = "=" -> "EqualEqual"
      [] c = ">" -> "GreaterEqual"
      [] c = "<" -> "LessEqual"

UnmergedKind(c) ==
    CASE c = "!" -> "Bang"
      [] c = "=" -> "Equal"
      [] c = ">" -> "Greater"
      [] c = "<" -> "Less"

\* Token tok, scanned from cursor position cur and spanning the characters
\* first + 1 .. last of src, is the maximal-munch token at that position.
IsMaximalMunch(src, cur, tok, first, last) ==
    /\ cur <= first
    /\ first <= last
    /\ last <= Len(src)
    /\ \A i \in (cur + 1)..first : Skippable(src, cur + 1, i)
    /\ tok.tp = "EOF" <=> first = Len(src)
    /\ tok.tp /= "Error" => tok.content = SubSeq(src, first + 1, last)
    /\ tok.line = 1 + NewlinesUpTo(src, last)
    /\ first < Len(src) =>
          LET c == src[first + 1] IN
          /\ ~Skippable(src, first + 1, first + 1)
          /\ is_digit(c) =>
                /\ tok.tp = "Number"
                /\ IsNumberText(tok.content)
                /\ last < Len(src) => ~is_digit(src[last + 1])
                /\ (last < Len(src) /\ src[last + 1] = ".")
                      => \E i \in 1..Len(tok.content) : tok.content[i] = "."
          /\ is_alpha_underscore(c) =>
                /\ \A i \in (first + 1)..last : is_alpha_underscore(src[i])
                /\ last < Len(src) => ~is_alpha_underscore(src[last + 1])
                /\ tok.tp = keyword_or_identifier(tok.content)
          /\ c \in {"!", "=", ">", "<"} =>
                IF first + 2 <= Len(src) /\ src[first + 2] = "="
                THEN last = first + 2 /\ tok.tp = MergedKind(c)
                ELSE last = first + 1 /\ tok.tp = UnmergedKind(c)
          /\ c = "/" => (last = first + 1 /\ tok.tp = "Slash")

\* The tokens that repeated next_token calls return, up to EOF.
RECURSIVE TokensFrom(_, _)
TokensFrom(src, sc) ==
    LET r == next_token(src, sc) IN
    IF r.panic THEN <<"panic">>
    ELSE IF r.tok.tp = "EOF" THEN <<r.tok>>
    ELSE <<r.tok>> \o TokensFrom(src, r.sc)

Tok(tp, content) == [tp |-> tp, content |-> content, line |-> 1]

NextIsUnterminatedString ==
    LET first == skip_whitespaces(source, scanner).current IN
    /\ first < Len(source)
    /\ source[first + 1] = "\""
    /\ \A i \in (first + 2)..Len(source) : source[i] /= "\""

\* C19: when a string is opened and no closing quote follows, next_token
\* returns an Error token, not a String token, with the cursor at the end
\* of the input, and the call after it returns EOF; a String token always
\* ends with its closing quote; the compiler records the error when it
\* takes the token, keeps it, and a compile that returns, returns false.
C19_UnterminatedStringIsError ==
    /\ [](NextIsUnterminatedString
            => LET r == next_token(source, scanner) IN
               /\ ~r.panic
               /\ r.tok.tp = "Error"
               /\ r.tok.content = <<"Non-terminated string literal">>
               /\ r.sc.current = Len(source)
               /\ next_token(source, r.sc).tok.tp = "EOF")
    /\ [](LET r == next_token(source, scanner) IN
          (~r.panic /\ r.tok.tp = "String")
             => (/\ Len(r.tok.content) >= 2
                 /\ r.tok.content[1] = "\""
                 /\ r.tok.content[Len(r.tok.content)] = "\""))
    /\ [][(NextIsUnterminatedString /\ scanner'.current /= scanner.current)
             => (parser'.had_error /\ scanner'.current = Len(source))]_vars
    /\ [][parser.had_error => parser'.had_error]_vars
    /\ []((parser.had_error /\ phase \in {"compiled", "running", "done"})
             => (~comp_res /\ phase /= "running"
                 /\ (phase = "done" => result = "CompileError")))

\* The compile of `print "ab` has returned false and interpret CompileError.
C19_Witness ==
    /\ source = Src_Unterminated
    /\ phase = "done"
    /\ result = "CompileError"
    /\ scanner.current = Len(source)
    /\ parser.current.tp = "EOF"
    /\ diags[1].msg = <<"Non-terminated string literal">>

\* How tightly a binary operator binds: Factor over Term over Comparison
\* over Equality.
Binding(o) ==
    CASE o \in {<<"*">>, <<"/">>} -> 4
      [] o \in {<<"+">>, <<"-">>} -> 3
      [] o \in {<<">">>, <<"<">>} -> 2
      [] o = <<"=", "=">> -> 1

InstOf(o) ==
    CASE o = <<"+">> -> [op |-> "OP_ADD"]
      [] o = <<"-">> -> [op |-> "OP_SUB"]
      [] o = <<"*">> -> [op |-> "OP_MUL"]
      [] o = <<"/">> -> [op |-> "OP_DIV"]
      [] o = <<"=", "=">> -> [op |-> "OP_EQ"]
      [] o = <<">">> -> [op |-> "OP_GT"]
      [] o = <<"<">> -> [op |-> "OP_LT"]

RECURSIVE Reversed(_)
Reversed(q) == IF q = <<>> THEN <<>> ELSE Append(Reversed(Tail(q)), Head(q))

\* The post-order of the parse tree of operand 1 ops[1] operand 2 ..., by
\* operator-precedence reduction: before operator i is shifted, every
\* pending operator that binds at least as tightly is emitted (so equal
\* precedence associates to the left); `pending` is innermost last.
RECURSIVE PostOrder(_, _, _, _)
PostOrder(ops, i, emitted, pending) ==
    IF i > Len(ops)
    THEN emitted \o [k \in 1..Len(pending) |-> InstOf(Reversed(pending)[k])]
    ELSE IF pending /= <<>> /\ Binding(pending[Len(pending)]) >= Binding(ops[i])
         THEN PostOrder(ops, i, Append(emitted, InstOf(pending[Len(pending)])),
                        SubSeq(pending, 1, Len(pending) - 1))
         ELSE PostOrder(ops, i + 1, Append(emitted, [op |-> "CONSTANT", idx |-> i]),
                        Append(pending, ops[i]))

\* The operators of the chain 1 op 2 op 3 ... ; read off its text from
\* position i, which follows an operand.
RECURSIVE OperatorsFrom(_, _)
OperatorsFrom(src, i) ==
    IF src[i] = ";" THEN <<>>
    ELSE IF src[i] = "=" THEN <<SubSeq(src, i, i + 1)>> \o OperatorsFrom(src, i + 3)
    ELSE <<SubSeq(src, i, i)>> \o OperatorsFrom(src, i + 2)

\* The operation names of the chunk's instructions, in order.
OpNames == [i \in 1..Len(chunk.data) |-> chunk.data[i].op]

\* C20: the code compiled for an expression statement built from binary
\* operators is the post-order of its parse tree, with Factor binding
\* tighter than Term, Term than Comparison, Comparison than Equality, and
\* equal precedence associating to the left, followed by OP_POP and
\* RETURN; `a - b - c` emits a, b, SUB, c, SUB and `a + b * c` emits a, b,
\* c, MUL, ADD.
C20_BinaryPostOrder ==
    phase = "compiled"
       => /\ source \in ChainPrograms
                => LET ops == OperatorsFrom(source, 2) IN
                      /\ ops \in ChainOps
                      /\ source = ChainProgram(ops)
                      /\ comp_res
                      /\ chunk.data
                            = PostOrder(ops, 1, <<[op |-> "CONSTANT", idx |-> 0]>>, <<>>)
                                 \o <<[op |-> "OP_POP"], [op |-> "RETURN"]>>
                      /\ chunk.value_array
                            = [k \in 1..(Len(ops) + 1) |-> Fin(1, k, 1)]
          /\ source = Src_LeftAssoc
                => /\ OpNames = <<"OP_GET_GLOBAL", "OP_GET_GLOBAL", "OP_SUB",
                                  "OP_GET_GLOBAL", "OP_SUB", "OP_POP", "RETURN">>
                   /\ chunk.value_array = <<create_string_obj(<<"a">>),
                                            create_string_obj(<<"b">>),
                                            create_string_obj(<<"c">>)>>
          /\ source = Src_PrecMix
                => /\ OpNames = <<"OP_GET_GLOBAL", "OP_GET_GLOBAL", "OP_GET_GLOBAL",
                                  "OP_MUL", "OP_ADD", "OP_POP", "RETURN">>
                   /\ chunk.value_array = <<create_string_obj(<<"a">>),
                                            create_string_obj(<<"b">>),
                                            create_string_obj(<<"c">>)>>

\* 1-2*3-4; has been compiled to 1, 2, 3, MUL, SUB, 4, SUB.
C20_Witness ==
    /\ source = ChainProgram(<<<<"-">>, <<"*">>, <<"-">>>>)
    /\ phase = "compiled"
    /\ OpNames = <<"CONSTANT", "CONSTANT", "CONSTANT", "OP_MUL", "OP_SUB",
                   "CONSTANT", "OP_SUB", "OP_POP", "RETURN">>

\* C21: a unary operator binds tighter than every binary operator: `-a + b`
\* emits a, NEGATE, b, ADD, and `print -1 + 2;` prints 1.
C21_UnaryBindsTighter ==
    /\ (phase = "compiled" /\ source = Src_NegAdd)
          => OpNames = <<"OP_GET_GLOBAL", "OP_NEGATE", "OP_GET_GLOBAL", "OP_ADD",
                         "OP_POP", "RETURN">>
    /\ (phase = "done" /\ source = Src_PrintNegAdd) => out = <<<<"1">>>>

\* What an instruction pushes less what it pops, and how many operands it
\* takes from the stack (vm.rs, the arms of run).
Pushers == {"CONSTANT", "OP_GET_GLOBAL"}

UnaryOps == {"OP_NEGATE", "OP_NOT"}

BinaryOps == {"OP_ADD", "OP_SUB", "OP_MUL", "OP_DIV", "OP_EQ", "OP_GT", "OP_LT"}

\* The last instruction of a declaration or statement (define_variable,
\* parse_expr_stmt, parse_print_stmt).
StmtEnders == {"OP_DEFINE_GLOBAL", "OP_POP", "OP_KCALL"}

Takes(op) ==
    IF op \in BinaryOps THEN 2 ELSE IF op \in UnaryOps \cup StmtEnders THEN 1 ELSE 0

\* The stack depth the first i instructions of the chunk leave.
Depth(i) ==
    Cardinality({j \in 1..i : chunk.data[j].op \in Pushers})
       - Cardinality({j \in 1..i : chunk.data[j].op \in BinaryOps \cup StmtEnders})

\* Instruction number pc (from 0) is the first of a declaration or statement.
StmtStart(pc) == pc = 0 \/ chunk.data[pc].op \in StmtEnders

\* C22: in a successfully compiled chunk the stack is empty at the first
\* instruction of every declaration or statement and at RETURN, the code of
\* an expression leaves one value for the instruction that ends its
\* statement, every instruction finds its operands; and the running VM's
\* stack follows that depth, so no pop or peek meets an empty stack.
C22_StackDiscipline ==
    /\ (phase = "compiled" /\ comp_res)
          => \A i \in 1..Len(chunk.data) :
                LET op == chunk.data[i].op IN
                /\ Depth(i - 1) >= Takes(op)
                /\ StmtStart(i - 1) => Depth(i - 1) = 0
                /\ op \in StmtEnders => Depth(i - 1) = 1 /\ Depth(i) = 0
                /\ op = "RETURN" => Depth(i - 1) = 0 /\ i = Len(chunk.data)
    /\ (phase = "running" /\ FetchInRange)
          => /\ Len(vm.stack) = Depth(vm.pc)
             /\ Len(vm.stack) >= Takes(fetch.op)
             /\ (StmtStart(vm.pc) \/ fetch.op = "RETURN") => vm.stack = <<>>
    /\ panicked \notin {"peek: empty stack", "peek_at: empty stack",
                        "kop_print: Expecting non-empty stack",
                        "define_variable: Expecting non-empty stack"}

\* var x; var x = "a"; is running: its second declaration starts on an
\* empty stack after the first one has bound x.
C22_Witness ==
    /\ source = Src_VarNoInit
    /\ phase = "running"
    /\ vm.pc = 2
    /\ StmtStart(vm.pc)
    /\ vm.stack = <<>>
    /\ DOMAIN vm.globals = {<<"x">>}

\* C23: the scanner never indexes the source at or past its length, also
\* when a number is the last thing in the source, and start <= current <=
\* length holds after every next_token.
C23_ScannerStaysInBounds ==
    /\ panicked /= "scan_number: index out of bounds"
    /\ scanner.start <= scanner.current
    /\ scanner.current <= Len(source)

\* C24: running a successfully compiled chunk starts at pc = 0, fetches
\* only inside the chunk, moves pc on by exactly one per executed
\* instruction, and leaves the loop only at RETURN with Ok or at an
\* unhandled instruction with RuntimeError.
C24_RunEndsAtReturnOrUnhandled ==
    /\ [][(phase = "compiled" /\ phase' = "running") => vm'.pc = 0]_vars
    /\ [](phase = "running" => (comp_res /\ FetchInRange))
    /\ [][(phase = "running" /\ phase' = "running") => vm'.pc = vm.pc + 1]_vars
    /\ [][(phase = "running" /\ phase' /= "running")
             => /\ phase' = "done"
                /\ vm'.pc = vm.pc
                /\ \/ fetch.op = "RETURN" /\ result' = "Ok"
                   \/ fetch.op \notin HandledOps /\ result' = "RuntimeError"]_vars

\* The instructions a step appends to the chunk.
Emitted == (Len(chunk.data) + 1)..Len(chunk'.data)

\* C25: the line table and the instruction sequence have the same length
\* and only grow by append, and the line recorded for an instruction is
\* the line of the token that was `previous` when it was emitted.  Every
\* step of the compiler emits after its last advance, so `previous` at the
\* emission is `previous` after the step.  For the three-line text
\* `// c` / `print 1;` / `2;` the lines are 2, 2, 3, 3, 3.
C25_LinesInLockstep ==
    /\ [](Len(chunk.lines) = Len(chunk.data))
    /\ [][/\ Len(chunk'.data) >= Len(chunk.data)
          /\ SubSeq(chunk'.data, 1, Len(chunk.data)) = chunk.data
          /\ SubSeq(chunk'.lines, 1, Len(chunk.lines)) = chunk.lines]_vars
    /\ [][\A i \in Emitted : chunk'.lines[i] = parser'.previous.line]_vars
    /\ []((source = Src_Comment /\ phase = "compiled")
             => chunk.lines = <<2, 2, 3, 3, 3>>)

\* The three-line text has been compiled to five instructions, the first
\* two from line 2 and the rest from line 3.
C25_Witness ==
    /\ source = Src_Comment
    /\ phase = "compiled"
    /\ OpNames = <<"CONSTANT", "OP_KCALL", "CONSTANT", "OP_POP", "RETURN">>
    /\ chunk.lines = <<2, 2, 3, 3, 3>>

\* The first Error token that repeated next_token calls return from sc on.
RECURSIVE FirstError(_, _)
FirstError(src, sc) ==
    LET r == next_token(src, sc) IN
    IF r.panic \/ r.tok.tp \in {"Error", "EOF"} THEN r.tok ELSE FirstError(src, r.sc)

\* The message is one the scanner puts in an Error token.
IsScannerMessage(msg) ==
    \/ msg = <<"Non-terminated string literal">>
    \/ (msg /= <<>> /\ msg[1] = "Fail to tokenize at character")

\* C26: when the first error of a compilation is an Error token of the
\* scanner, the diagnostic carries the line of that token.
C26_ScannerErrorLine ==
    (diags /= <<>> /\ IsScannerMessage(diags[1].msg))
       => LET tok == FirstError(source, ScannerState_new) IN
          /\ tok.tp = "Error"
          /\ diags[1].msg = tok.content
          /\ diags[1].line = tok.line

\* The pool index an instruction carries, or -1.
PoolIndex(inst) ==
    CASE inst.op = "CONSTANT" -> inst.idx
      [] inst.op \in {"OP_GET_GLOBAL", "OP_DEFINE_GLOBAL"} -> inst.name_idx
      [] OTHER -> -1

\* The token kinds whose prefix rule compiles a pool entry, and the entry.
LiteralKinds == {"Number", "String", "Identifier", "True", "False", "Nil"}

LiteralValue(tok) ==
    CASE tok.tp = "Number" -> parse_f64(tok.content)
      [] tok.tp = "String" -> create_string_obj(SubSeq(tok.content, 2, Len(tok.content) - 1))
      [] tok.tp = "Identifier" -> create_string_obj(tok.content)
      [] tok.tp = "True" -> BOOL(TRUE)
      [] tok.tp = "False" -> BOOL(FALSE)
      [] tok.tp = "Nil" -> NIL

\* C27: the constant pool only grows by append; an index carried by an
\* instruction lies inside the pool and a name index refers to a string;
\* compiling a literal or identifier occurrence in an expression appends
\* exactly one entry, its value, and emits the instruction carrying the new
\* index; no slot is shared: when compile returns every slot is carried by
\* exactly one instruction.  `var x = 1; print x;` has the pool x, 1, x.
C27_PoolAppendOnly ==
    /\ [](\A i \in 1..Len(chunk.data) :
             LET inst == chunk.data[i] IN
             /\ PoolIndex(inst) < Len(chunk.value_array)
             /\ inst.op \in {"OP_GET_GLOBAL", "OP_DEFINE_GLOBAL"}
                   => is_string(read(inst.name_idx)))
    /\ [][/\ Len(chunk'.value_array) >= Len(chunk.value_array)
          /\ SubSeq(chunk'.value_array, 1, Len(chunk.value_array)) = chunk.value_array]_vars
    /\ [][(InFrame("parse_prec") /\ phase' = "compile"
              /\ parser'.previous.tp \in LiteralKinds)
            => LET n == Len(chunk.value_array) IN
               /\ chunk'.value_array = Append(chunk.value_array, LiteralValue(parser'.previous))
               /\ Len(chunk'.data) = Len(chunk.data) + 1
               /\ PoolIndex(chunk'.data[Len(chunk'.data)]) = n]_vars
    /\ [](phase = "compiled"
             => \A k \in 0..(Len(chunk.value_array) - 1) :
                   Cardinality({i \in 1..Len(chunk.data) : PoolIndex(chunk.data[i]) = k}) = 1)
    /\ []((source = Src_VarPrint /\ phase = "compiled")
             => chunk.value_array
                   = <<create_string_obj(<<"x">>), Fin(1, 1, 1), create_string_obj(<<"x">>)>>)

\* var x = 1; print x; has been compiled: x occurs twice and has two slots.
C27_Witness ==
    /\ source = Src_VarPrint
    /\ phase = "compiled"
    /\ comp_res
    /\ Len(chunk.value_array) = 3
    /\ chunk.value_array[1] = chunk.value_array[3]
    /\ chunk.data[1] = [op |-> "CONSTANT", idx |-> 1]
    /\ chunk.data[2] = [op |-> "OP_DEFINE_GLOBAL", name_idx |-> 0]
    /\ chunk.data[3] = [op |-> "OP_GET_GLOBAL", name_idx |-> 2]

\* The arm of the match of run for a handled instruction other than RETURN,
\* applied to a VM that has not been traced.
Arm(m, inst) ==
    CASE inst.op = "OP_POP" -> vm_pop(m)
      [] inst.op = "OP_KCALL" -> kop_print(m)
      [] inst.op = "OP_DEFINE_GLOBAL" -> vm_define_variable(m, inst.name_idx)
      [] inst.op = "CONSTANT" -> vm_constant(m, inst.idx)
      [] inst.op = "OP_NEGATE" -> vm_negate(m)
      [] inst.op = "OP_NOT" -> vm_not(m)
      [] inst.op = "OP_ADD" -> vm_add(m)
      [] inst.op = "OP_SUB" -> vm_sub(m)
      [] inst.op = "OP_DIV" -> vm_div(m)
      [] inst.op = "OP_MUL" -> vm_mul(m)
      [] inst.op = "OP_EQ" -> vm_eq(m)
      [] inst.op = "OP_GT" -> vm_gt(m)
      [] inst.op = "OP_LT" -> vm_lt(m)

\* C28: tracing has no behavioural effect.  With the trace on or off, run
\* starts from the same VM, and every round of its loop changes pc, the
\* stack, the globals, the result and the program's output exactly as the
\* untraced instruction does from the same VM; so both runs of a chunk
\* visit the same pc values and end with the same result, stack and
\* globals.  `print 1 + 2 * 3 - 1;` ends at pc 8 with Ok in both.
C28_TraceHasNoEffect ==
    /\ [](vm.enable_trace => debug_mode)
    /\ [](~debug_mode => (~vm.enable_trace /\ traced = <<>>))
    /\ [][(phase = "compiled" /\ phase' /= "compiled" /\ comp_res)
            => /\ phase' = "running"
               /\ vm'.pc = 0 /\ vm'.stack = <<>> /\ vm'.globals = EmptyGlobals
               /\ vm'.enable_trace = debug_mode]_vars
    /\ [][phase = "running"
            => IF fetch.op = "RETURN" \/ fetch.op \notin HandledOps
               THEN /\ phase' = "done"
                    /\ result' = IF fetch.op = "RETURN" THEN "Ok" ELSE "RuntimeError"
                    /\ vm'.pc = vm.pc /\ vm'.stack = vm.stack /\ vm'.globals = vm.globals
                    /\ out' = out /\ rt_errors' = rt_errors /\ panicked' = panicked
               ELSE LET m == Arm(Machine, fetch) IN
                    /\ vm'.pc = IF Aborted(m) THEN vm.pc ELSE vm.pc + 1
                    /\ vm'.stack = m.stack /\ vm'.globals = m.globals
                    /\ out' = m.out /\ rt_errors' = m.rt_errors
                    /\ panicked' = m.abort
                    /\ phase' = IF Aborted(m) THEN "aborted" ELSE "running"
                    /\ result' = result]_vars
    /\ []((source = Src_Arith /\ phase = "done")
             => /\ result = "Ok" /\ vm.pc = 8 /\ vm.stack = <<>>
                /\ vm.globals = EmptyGlobals /\ out = <<<<"6">>>>)

\* print 1 + 2 * 3 - 1; has run to Ok with the trace on: the listing and
\* one trace entry for each of the nine instructions have been printed.
C28_Witness ==
    /\ source = Src_Arith
    /\ debug_mode
    /\ vm.enable_trace
    /\ phase = "done"
    /\ result = "Ok"
    /\ out = <<<<"6">>>>
    /\ Len(traced) = 2 * Len(chunk.data)
    /\ traced[Len(traced)].kind = "trace"
    /\ traced[Len(traced)].inst.op = "RETURN"

====
